---- MODULE Spec2Model ----
(***************************************************************************)
(* Verification model of uae-dap's BreakpointManager                       *)
(* (src/unnamed/part_000) and of DisassembledFile / DisassemblyManager     *)
(* (src/src/disassembly/disassemblyManager.ts).                            *)
(*                                                                         *)
(* Every async method is a call in the pool `calls`; a call advances one   *)
(* atomic step per JavaScript continuation: from its start to its first    *)
(* `await`, and from the settlement of an awaited promise to the next      *)
(* `await` or to its return.  Outcomes of the collaborators (the remote    *)
(* session GdbProxy, the symbol database Program, the Mutex) are chosen    *)
(* nondeterministically when the awaited promise settles.                  *)
(***************************************************************************)
EXTENDS Integers, Sequences, FiniteSets, TLC

(***************************************************************************)
(* Bounds of the model.                                                    *)
(***************************************************************************)
MaxCalls == 3
MaxBps == 2
MaxId == 4

(***************************************************************************)
(* Values.                                                                 *)
(***************************************************************************)
Undef == "undefined"
NoNum == -1

DEFAULT_EXCEPTION_MASK == 60

Kinds == {"SOURCE", "INSTRUCTION", "DATA", "EXCEPTION", "TEMPORARY"}

\* isDisassembledFile (./disassembly) holds of the names of disassembly files;
\* of the paths and names used here, these are the ones.
DbgasmNames == {"seg_0.dbgasm", "/tmp/seg_0.dbgasm"}

isDisassembledFile(path) == path \in DbgasmNames

NoSource == [def |-> FALSE, path |-> Undef, name |-> Undef]
SrcFile == [def |-> TRUE, path |-> "/src/main.s", name |-> "main.s"]
SrcDasm == [def |-> TRUE, path |-> "seg_0.dbgasm", name |-> "seg_0.dbgasm"]

ErrNoProgram == "Program is not running"
ErrNotResolved == "Segment offset not resolved"
ErrIncomplete == "Breakpoint info incomplete"
ErrRemote == "remote error"
ErrLookup == "lookup error"
ErrTimeout == "mutex timeout"

Location == [segmentId |-> 0, offset |-> 4]
DasmAddress == 8

VARIABLES
  connected,            \* gdbProxy.isConnected()
  program,              \* this.program is set
  exceptionMask,        \* this.exceptionMask
  heap,                 \* the GdbBreakpoint objects, by reference
  nextBreakpointId,     \* this.nextBreakpointId
  breakpoints,          \* this.breakpoints: references, in order
  pendingBreakpoints,   \* this.pendingBreakpoints: references, in order
  mutexHolder,          \* this.mutex: 0 when free, else the capturing call
  breakpointLock,       \* this.breakpointLock: 0 when undefined, else the capture it releases
  oldMutexes,           \* the holders of the Mutex objects setMutexTimeout has replaced, oldest first
  lockMutex,            \* the Mutex the release function in breakpointLock frees (0 when undefined)
  groups,               \* the arrays made by createTemporaryBreakpointArray, by reference
  temporaryBreakpointArrays, \* this.temporaryBreakpointArrays: array references, in order
  remote,               \* breakpoints installed on the target
  calls,                \* the calls in progress
  ret,                  \* settlement of the most recently settled call
  assigned,             \* history: the ids the factories have assigned, in order
  df,                   \* a DisassembledFile being printed and parsed
  lineCache,            \* DisassemblyManager.lineCache
  dmCalls,              \* the DisassemblyManager calls in progress
  dmRet,                \* the line the most recently settled disassembleLine returned
  dmLog,                \* history: per address, disassembleLine calls and gdb.getMemory calls
  dmOut                 \* what the most recently settled getStackFrame or
                        \* getAddressForFileEditorLine returned or threw

bpVars == <<connected, program, exceptionMask, heap, nextBreakpointId, breakpoints,
            pendingBreakpoints, mutexHolder, breakpointLock, oldMutexes, lockMutex, groups,
            temporaryBreakpointArrays, remote, calls, ret, assigned>>

dmVars == <<df, lineCache, dmCalls, dmRet, dmLog, dmOut>>

vars == <<connected, program, exceptionMask, heap, nextBreakpointId, breakpoints,
          pendingBreakpoints, mutexHolder, breakpointLock, oldMutexes, lockMutex, groups,
          temporaryBreakpointArrays, remote, calls, ret, assigned,
          df, lineCache, dmCalls, dmRet, dmLog, dmOut>>

Slots == 1..MaxCalls
Refs == 1..Len(heap)

Idle == [op |-> "idle", pc |-> "idle", parent |-> 0, bp |-> 0, br |-> "none",
         typ |-> "none", src |-> NoSource, i |-> 0, live |-> TRUE, arr |-> <<>>,
         rem |-> <<>>, hasError |-> FALSE, grp |-> 0, left |-> {}, mx |-> 0]

FreeSlots(cs) == {c \in Slots : cs[c].op = "idle"}
MinOf(S) == CHOOSE x \in S : \A y \in S : x <= y
Children(cs, c) == {k \in Slots : cs[k].op # "idle" /\ cs[k].parent = c}

(***************************************************************************)
(* Breakpoint factories.                                                   *)
(***************************************************************************)
NewBp(kind, id, source, line, mask, offset) ==
  [breakpointType |-> kind, id |-> id, source |-> source, line |-> line,
   exceptionMask |-> mask, verified |-> FALSE, message |-> Undef,
   segmentId |-> NoNum, offset |-> offset]

createBreakpoint(id, source, line) == NewBp("SOURCE", id, source, line, NoNum, 0)
createTemporaryBreakpoint(id, address) == NewBp("TEMPORARY", id, NoSource, NoNum, NoNum, address)
createInstructionBreakpoint(id, address) == NewBp("INSTRUCTION", id, NoSource, NoNum, NoNum, address)
\* Lines 240-256; size and accessType are not part of the model.
createDataBreakpoint(id, offset, message) ==
  [NewBp("DATA", id, NoSource, NoNum, NoNum, offset) EXCEPT !.message = message]
\* Lines 258-266; mask is this.exceptionMask.
createExceptionBreakpoint(id, mask) == NewBp("EXCEPTION", id, NoSource, NoNum, mask, 0)

(***************************************************************************)
(* setBreakpoint (lines 86-135) and addPendingBreakpoint (147-153).        *)
(* The operators below work on a record st of the fields a call changes:   *)
(* heap, pend (pendingBreakpoints), calls and ret.                         *)
(***************************************************************************)
Cur == [heap |-> heap, pend |-> pendingBreakpoints, calls |-> calls, ret |-> ret]

\* Mutant: the error's message is not recorded.
addPendingBreakpoint_NoMessage(st, o, err) ==
  [st EXCEPT !.heap[o].verified = FALSE, !.pend = Append(@, o)]

addPendingBreakpoint(st, o, err) ==
  [st EXCEPT !.heap[o].verified = FALSE,
             !.heap[o].message = IF err # Undef THEN err ELSE @,
             !.pend = Append(@, o)]

\* Mutant: a TEMPORARY breakpoint is installed like an INSTRUCTION breakpoint.
Classify_TemporaryInstalls(b) ==
  LET isData == b.breakpointType = "DATA"
      isInstruction == b.breakpointType \in {"INSTRUCTION", "TEMPORARY"}
      hasMask == b.exceptionMask # NoNum
      path == IF b.source.path = Undef THEN "" ELSE b.source.path
  IN IF ~connected THEN "notConnected"
     ELSE IF b.source.def /\ b.line # NoNum /\ b.id # NoNum
          THEN IF ~program THEN "noProgram"
               ELSE IF ~isDisassembledFile(path) THEN "lookup" ELSE "dasm"
          ELSE IF hasMask \/ isData \/ isInstruction THEN "install"
               ELSE "incomplete"

\* Mutant: the connection is not checked.
Classify_NoConnectionCheck(b) ==
  LET isData == b.breakpointType = "DATA"
      isInstruction == b.breakpointType = "INSTRUCTION"
      hasMask == b.exceptionMask # NoNum
      path == IF b.source.path = Undef THEN "" ELSE b.source.path
  IN IF b.source.def /\ b.line # NoNum /\ b.id # NoNum
     THEN IF ~program THEN "noProgram"
          ELSE IF ~isDisassembledFile(path) THEN "lookup" ELSE "dasm"
     ELSE IF hasMask \/ isData \/ isInstruction THEN "install"
          ELSE "incomplete"

\* What setBreakpoint(b) does up to its first await (lines 87-129).
Classify(b) ==
  LET isData == b.breakpointType = "DATA"
      isInstruction == b.breakpointType = "INSTRUCTION"
      hasMask == b.exceptionMask # NoNum
      path == IF b.source.path = Undef THEN "" ELSE b.source.path
  IN IF ~connected THEN "notConnected"
     ELSE IF b.source.def /\ b.line # NoNum /\ b.id # NoNum
          THEN IF ~program THEN "noProgram"
               ELSE IF ~isDisassembledFile(path) THEN "lookup" ELSE "dasm"
          ELSE IF hasMask \/ isData \/ isInstruction THEN "install"
               ELSE "incomplete"

\* setBreakpoint(o) from its call to its first await, or to its return.
SetEnter(st, o, parent) ==
  LET k == Classify(st.heap[o])
      c == MinOf(FreeSlots(st.calls))
      st1 == IF k \in {"noProgram", "lookup", "dasm"}
             THEN [st EXCEPT !.heap[o].verified = FALSE] ELSE st
  IN CASE k = "notConnected" -> [addPendingBreakpoint(st, o, Undef) EXCEPT !.ret = "false"]
       [] k = "noProgram" -> [addPendingBreakpoint(st1, o, ErrNoProgram) EXCEPT !.ret = "false"]
       [] k = "incomplete" -> [addPendingBreakpoint(st, o, ErrIncomplete) EXCEPT !.ret = "false"]
       [] OTHER -> [st1 EXCEPT !.calls[c] =
                      [Idle EXCEPT !.op = "set", !.pc = k, !.parent = parent, !.bp = o,
                                   !.br = IF k = "install" THEN "direct" ELSE "src"]]

SetsInFlight == Cardinality({c \in Slots : calls[c].op = "set"})
Room == Len(breakpoints) + Len(pendingBreakpoints) + SetsInFlight < MaxBps

Apply(st) ==
  /\ heap' = st.heap
  /\ pendingBreakpoints' = st.pend
  /\ calls' = st.calls
  /\ ret' = st.ret

\* A caller calls setBreakpoint(o).
SetBreakpoint(o) ==
  /\ FreeSlots(calls) # {}
  /\ Room
  /\ Apply(SetEnter(Cur, o, 0))
  /\ UNCHANGED <<connected, program, exceptionMask, nextBreakpointId, breakpoints,
                 mutexHolder, breakpointLock, oldMutexes, lockMutex, groups, temporaryBreakpointArrays, remote, assigned>>
  /\ UNCHANGED dmVars

\* How an awaited promise of a collaborator settles: fulfilled, rejected with
\* an Error, or rejected with a value that is no Error.
Settlements == {"ok", "throw", "throwValue"}

\* Line 131: `error instanceof Error ? error : undefined`, as the message
\* addPendingBreakpoint is given.
Caught(res, message) == IF res = "throw" THEN message ELSE Undef

\* program.findLocationForLine settles and addLocation goes on (lines 415-422):
\* a location found is written to the breakpoint and addLocation returns true.
\* With no location setBreakpoint throws (line 109) and catches (lines
\* 130-133), as it catches a rejected lookup.
SetLookupDone(c, outcome) ==
  /\ calls[c].op = "set" /\ calls[c].pc = "lookup"
  /\ LET o == calls[c].bp
         fin == [Cur EXCEPT !.calls[c] = Idle]
     IN Apply(CASE outcome = "found" ->
                     [Cur EXCEPT !.heap[o].segmentId = Location.segmentId,
                                 !.heap[o].offset = Location.offset,
                                 !.calls[c].pc = "located"]
                [] outcome = "none" ->
                     [addPendingBreakpoint(fin, o, ErrNotResolved) EXCEPT !.ret = "false"]
                [] OTHER ->
                     [addPendingBreakpoint(fin, o, Caught(outcome, ErrLookup))
                        EXCEPT !.ret = "false"])
  /\ UNCHANGED <<connected, program, exceptionMask, nextBreakpointId, breakpoints,
                 mutexHolder, breakpointLock, oldMutexes, lockMutex, groups, temporaryBreakpointArrays, remote, assigned>>
  /\ UNCHANGED dmVars

\* setBreakpoint goes on after `await this.addLocation(...)` (line 105 on): the
\* remote install is requested.
SetLocated(c) ==
  /\ calls[c].op = "set" /\ calls[c].pc = "located"
  /\ calls' = [calls EXCEPT ![c].pc = "install"]
  /\ UNCHANGED <<connected, program, exceptionMask, heap, nextBreakpointId, breakpoints,
                 pendingBreakpoints, mutexHolder, breakpointLock, oldMutexes, lockMutex,
                 groups, temporaryBreakpointArrays, remote, ret, assigned>>
  /\ UNCHANGED dmVars

\* program.getAddressForFileEditorLine settles (lines 113-118).
SetDasmDone(c, res) ==
  /\ calls[c].op = "set" /\ calls[c].pc = "dasm"
  /\ LET o == calls[c].bp
         fin == [Cur EXCEPT !.calls[c] = Idle]
     IN Apply(IF res = "ok"
              THEN [Cur EXCEPT !.heap[o].segmentId = NoNum,
                               !.heap[o].offset = DasmAddress,
                               !.calls[c].pc = "install"]
              ELSE [addPendingBreakpoint(fin, o, Caught(res, ErrLookup))
                      EXCEPT !.ret = "false"])
  /\ UNCHANGED <<connected, program, exceptionMask, nextBreakpointId, breakpoints,
                 mutexHolder, breakpointLock, oldMutexes, lockMutex, groups, temporaryBreakpointArrays, remote, assigned>>
  /\ UNCHANGED dmVars

\* Mutant: the remote install of setBreakpoint waits until the mutex is free.
SetInstallDone_TakesLock(c, res) ==
  /\ calls[c].op = "set" /\ calls[c].pc = "install"
  /\ mutexHolder = 0
  /\ LET o == calls[c].bp
         fin == [Cur EXCEPT !.calls[c] = Idle]
         hasMask == heap[o].exceptionMask # NoNum
     IN IF res = "ok"
        THEN /\ Apply([fin EXCEPT !.ret = "true"])
             /\ remote' = remote \cup {o}
             /\ breakpoints' = IF calls[c].br = "src" \/ ~hasMask
                               THEN Append(breakpoints, o) ELSE breakpoints
        ELSE /\ Apply([addPendingBreakpoint(fin, o, Caught(res, ErrRemote))
                          EXCEPT !.ret = "false"])
             /\ UNCHANGED <<remote, breakpoints>>
  /\ UNCHANGED <<connected, program, exceptionMask, nextBreakpointId, mutexHolder, breakpointLock, oldMutexes, lockMutex,
                 groups, temporaryBreakpointArrays, assigned>>
  /\ UNCHANGED dmVars

\* gdbProxy.setBreakpoint settles (lines 106-107, 119-120, 123-126), then 130-134.
SetInstallDone(c, res) ==
  /\ calls[c].op = "set" /\ calls[c].pc = "install"
  /\ LET o == calls[c].bp
         fin == [Cur EXCEPT !.calls[c] = Idle]
         hasMask == heap[o].exceptionMask # NoNum
     IN IF res = "ok"
        THEN /\ Apply([fin EXCEPT !.ret = "true"])
             /\ remote' = remote \cup {o}
             /\ breakpoints' = IF calls[c].br = "src" \/ ~hasMask
                               THEN Append(breakpoints, o) ELSE breakpoints
        ELSE /\ Apply([addPendingBreakpoint(fin, o, Caught(res, ErrRemote))
                          EXCEPT !.ret = "false"])
             /\ UNCHANGED <<remote, breakpoints>>
  /\ UNCHANGED <<connected, program, exceptionMask, nextBreakpointId, mutexHolder, breakpointLock, oldMutexes, lockMutex,
                 groups, temporaryBreakpointArrays, assigned>>
  /\ UNCHANGED dmVars

\* A caller calls addPendingBreakpoint(o) directly.
AddPendingBreakpoint(o) ==
  /\ Room
  /\ Apply(addPendingBreakpoint(Cur, o, Undef))
  /\ UNCHANGED <<connected, program, exceptionMask, nextBreakpointId, breakpoints,
                 mutexHolder, breakpointLock, oldMutexes, lockMutex, groups, temporaryBreakpointArrays, remote, assigned>>
  /\ UNCHANGED dmVars

(***************************************************************************)
(* The lock: acquireLock / releaseLock (lines 425-434) over the Mutex.     *)
(***************************************************************************)
\* The Mutex objects are numbered in the order of their construction: 0 is
\* the one of line 45, and every setMutexTimeout makes the next.  The lock is
\* the record of mh (the holder of this.mutex), bl (this.breakpointLock), old
\* (the holders of the replaced mutexes) and lm (the mutex bl frees).
Lock == [mh |-> mutexHolder, bl |-> breakpointLock, old |-> oldMutexes, lm |-> lockMutex]

\* The number of this.mutex.
ThisMutex == Len(oldMutexes)

HolderOf(L, g) == IF g = Len(L.old) THEN L.mh ELSE L.old[g + 1]
SetHolder(L, g, h) ==
  IF g = Len(L.old) THEN [L EXCEPT !.mh = h] ELSE [L EXCEPT !.old[g + 1] = h]

\* mutex.capture succeeds for call c: the mutex it called capture on is free.
CanCapture(c) == HolderOf(Lock, calls[c].mx) = 0

\* acquireLock() of call c once capture on mutex g has succeeded (line 426).
acquireLock(L, c, g) == [SetHolder(L, g, c) EXCEPT !.bl = c, !.lm = g]

\* releaseLock(), lines 429-434: the lock after it.
releaseLock(L) ==
  IF L.bl # 0 THEN [SetHolder(L, L.lm, 0) EXCEPT !.bl = 0, !.lm = 0] ELSE L

ApplyLock(L) ==
  /\ mutexHolder' = L.mh
  /\ breakpointLock' = L.bl
  /\ oldMutexes' = L.old
  /\ lockMutex' = L.lm

Release == ApplyLock(releaseLock(Lock))

Acquire(c) == ApplyLock(acquireLock(Lock, c, calls[c].mx))

MaxMutexes == 1

\* setMutexTimeout (lines 75-77): this.mutex is a new, free Mutex; the one it
\* replaces stays as it is, with the calls that wait for it or hold it.
\* mutex.capture of call c is fulfilled and acquireLock goes on (line 426):
\* the release function is stored.  The method that awaits acquireLock goes
\* on in a later step.
AcquireLock(c) ==
  /\ calls[c].pc = "acq"
  /\ CanCapture(c)
  /\ Acquire(c)
  /\ calls' = [calls EXCEPT ![c].pc = "locked"]
  /\ UNCHANGED <<connected, program, exceptionMask, heap, nextBreakpointId, breakpoints,
                 pendingBreakpoints, groups, temporaryBreakpointArrays, remote, ret, assigned>>
  /\ UNCHANGED dmVars

SetMutexTimeout ==
  /\ Len(oldMutexes) < MaxMutexes
  /\ oldMutexes' = Append(oldMutexes, mutexHolder)
  /\ mutexHolder' = 0
  /\ UNCHANGED <<connected, program, exceptionMask, heap, nextBreakpointId, breakpoints,
                 pendingBreakpoints, breakpointLock, lockMutex, groups,
                 temporaryBreakpointArrays, remote, calls, ret, assigned>>
  /\ UNCHANGED dmVars

(***************************************************************************)
(* addLocationToPending (lines 165-176) over addLocation (409-423).        *)
(***************************************************************************)
RECURSIVE PendingScan(_, _, _)
\* The for-of loop from index i to the next entry that has a source and a
\* line and whose path is no disassembly file; the index is past the end
\* when the loop is over.
PendingScan(h, arr, i) ==
  IF i > Len(arr) THEN i
  ELSE LET b == h[arr[i]]
           path == IF b.source.path = Undef THEN "" ELSE b.source.path
       IN IF b.source.def /\ b.line # NoNum /\ b.line # 0 /\ ~isDisassembledFile(path)
          THEN i
          ELSE PendingScan(h, arr, i + 1)

\* The array the loop of call c iterates: this.pendingBreakpoints as it was
\* when the loop began.
PendingArray(c) == IF calls[c].live THEN pendingBreakpoints ELSE calls[c].arr

\* Line 186 replaces this.pendingBreakpoints: loops still running keep the
\* old array.
DetachPending(st) ==
  [st EXCEPT !.calls =
     [k \in Slots |->
        IF st.calls[k].op = "addLoc" /\ st.calls[k].live
        THEN [st.calls[k] EXCEPT !.live = FALSE, !.arr = pendingBreakpoints]
        ELSE st.calls[k]]]

\* addLocationToPending() up to its first await, or to its return.
AddLocationToPending ==
  /\ FreeSlots(calls) # {}
  /\ LET j == PendingScan(heap, pendingBreakpoints, 1)
     IN IF ~program \/ j > Len(pendingBreakpoints)
        THEN /\ ret' = "void"
             /\ UNCHANGED calls
        ELSE /\ calls' = [calls EXCEPT ![MinOf(FreeSlots(calls))] =
                            [Idle EXCEPT !.op = "addLoc", !.pc = "lookup", !.i = j]]
             /\ UNCHANGED ret
  /\ UNCHANGED <<connected, program, exceptionMask, heap, nextBreakpointId, breakpoints,
                 pendingBreakpoints, mutexHolder, breakpointLock, oldMutexes, lockMutex, groups,
                 temporaryBreakpointArrays, remote, assigned>>
  /\ UNCHANGED dmVars

\* Mutant: an entry that got its location leaves the queue.
AddLocLookupDone_Dequeues(c, outcome) ==
  /\ calls[c].op = "addLoc" /\ calls[c].pc = "lookup"
  /\ LET arr == PendingArray(c)
         o == arr[calls[c].i]
         j == PendingScan(heap, arr, calls[c].i + 1)
     IN CASE outcome = "found" ->
               /\ heap' = [heap EXCEPT ![o].segmentId = Location.segmentId,
                                       ![o].offset = Location.offset]
               /\ pendingBreakpoints' = SelectSeq(pendingBreakpoints, LAMBDA y : y # o)
               /\ calls' = [calls EXCEPT ![c].pc = "located", ![c].live = FALSE,
                                         ![c].arr = arr]
               /\ UNCHANGED ret
          [] outcome = "throw" ->
               /\ calls' = [calls EXCEPT ![c] = Idle]
               /\ ret' = "throw"
               /\ UNCHANGED <<heap, pendingBreakpoints>>
          [] OTHER ->
               /\ IF j > Len(arr)
                  THEN calls' = [calls EXCEPT ![c] = Idle] /\ ret' = "void"
                  ELSE calls' = [calls EXCEPT ![c].i = j] /\ UNCHANGED ret
               /\ UNCHANGED <<heap, pendingBreakpoints>>
  /\ UNCHANGED <<connected, program, exceptionMask, nextBreakpointId, breakpoints,
                 mutexHolder, breakpointLock, oldMutexes, lockMutex, groups,
                 temporaryBreakpointArrays, remote, assigned>>
  /\ UNCHANGED dmVars

\* program.findLocationForLine settles for the entry at index i and
\* addLocation goes on (lines 415-422): a location found is written to the
\* entry and addLocation returns; with no location the loop goes on to its
\* next lookup or to the return.  A failure is not caught.
AddLocLookupDone(c, outcome) ==
  /\ calls[c].op = "addLoc" /\ calls[c].pc = "lookup"
  /\ LET arr == PendingArray(c)
         o == arr[calls[c].i]
         j == PendingScan(heap, arr, calls[c].i + 1)
     IN CASE outcome = "found" ->
               /\ heap' = [heap EXCEPT ![o].segmentId = Location.segmentId,
                                       ![o].offset = Location.offset]
               /\ calls' = [calls EXCEPT ![c].pc = "located"]
               /\ UNCHANGED ret
          [] outcome = "throw" ->
               /\ calls' = [calls EXCEPT ![c] = Idle]
               /\ ret' = "throw"
               /\ UNCHANGED heap
          [] OTHER ->
               /\ IF j > Len(arr)
                  THEN calls' = [calls EXCEPT ![c] = Idle] /\ ret' = "void"
                  ELSE calls' = [calls EXCEPT ![c].i = j] /\ UNCHANGED ret
               /\ UNCHANGED heap
  /\ UNCHANGED <<connected, program, exceptionMask, nextBreakpointId, breakpoints,
                 pendingBreakpoints, mutexHolder, breakpointLock, oldMutexes, lockMutex, groups,
                 temporaryBreakpointArrays, remote, assigned>>
  /\ UNCHANGED dmVars

\* addLocationToPending goes on after `await this.addLocation(...)` (lines
\* 169-176): the loop takes its next entry, or the call returns.
AddLocNext(c) ==
  /\ calls[c].op = "addLoc" /\ calls[c].pc = "located"
  /\ LET arr == PendingArray(c)
         j == PendingScan(heap, arr, calls[c].i + 1)
     IN IF j > Len(arr)
        THEN calls' = [calls EXCEPT ![c] = Idle] /\ ret' = "void"
        ELSE calls' = [calls EXCEPT ![c].pc = "lookup", ![c].i = j] /\ UNCHANGED ret
  /\ UNCHANGED <<connected, program, exceptionMask, heap, nextBreakpointId, breakpoints,
                 pendingBreakpoints, mutexHolder, breakpointLock, oldMutexes, lockMutex, groups,
                 temporaryBreakpointArrays, remote, assigned>>
  /\ UNCHANGED dmVars

(***************************************************************************)
(* sendAllPendingBreakpoints (lines 182-190).                              *)
(***************************************************************************)
RECURSIVE Dispatch(_, _, _, _)
\* pending.map((bp) => this.setBreakpoint(bp)): each call runs to its first await.
Dispatch(st, pending, k, parent) ==
  IF k > Len(pending) THEN st
  ELSE Dispatch([SetEnter(st, pending[k], parent) EXCEPT !.calls[parent].i = @ + 1],
                pending, k + 1, parent)

\* Mutant: the queue is emptied after the dispatch, not before it.
FlushDispatch_SwapAfter(c) ==
  [Dispatch([Cur EXCEPT !.calls[c].pc = "wait", !.calls[c].arr = pendingBreakpoints],
            pendingBreakpoints, 1, c) EXCEPT !.pend = <<>>]

\* Mutant: the queue is dispatched but never emptied.
FlushDispatch_KeepQueue(c) ==
  [Dispatch([Cur EXCEPT !.calls[c].pc = "wait", !.calls[c].arr = pendingBreakpoints],
            pendingBreakpoints, 1, c) EXCEPT !.pend = pendingBreakpoints]

\* Lines 185-187: swap the queue, then dispatch.  The call keeps the captured
\* queue in arr and counts in i the setBreakpoint calls it has made.
FlushDispatch(c) ==
  Dispatch([Cur EXCEPT !.pend = <<>>, !.calls[c].pc = "wait",
                       !.calls[c].arr = pendingBreakpoints],
           pendingBreakpoints, 1, c)

SendAllPendingBreakpoints ==
  /\ FreeSlots(calls) # {}
  /\ IF Len(pendingBreakpoints) > 0
     THEN calls' = [calls EXCEPT ![MinOf(FreeSlots(calls))] =
                       [Idle EXCEPT !.op = "flush", !.pc = "acq", !.mx = ThisMutex]]
          /\ ret' = ret
     ELSE calls' = calls /\ ret' = "void"
  /\ UNCHANGED <<connected, program, exceptionMask, heap, nextBreakpointId, breakpoints,
                 pendingBreakpoints, mutexHolder, breakpointLock, oldMutexes, lockMutex, groups,
                 temporaryBreakpointArrays, remote, assigned>>
  /\ UNCHANGED dmVars

\* sendAllPendingBreakpoints goes on after `await this.acquireLock()` (lines 185-187).
FlushSwap(c) ==
  /\ calls[c].op = "flush" /\ calls[c].pc = "locked"
  /\ Cardinality(FreeSlots(calls)) >= Len(pendingBreakpoints)
  /\ Apply(DetachPending(FlushDispatch(c)))
  /\ UNCHANGED <<connected, program, exceptionMask, nextBreakpointId, breakpoints,
                 mutexHolder, breakpointLock, oldMutexes, lockMutex, groups,
                 temporaryBreakpointArrays, remote, assigned>>
  /\ UNCHANGED dmVars

\* Promise.all settled: every setBreakpoint of the flush has returned.
FlushFinish(c) ==
  /\ calls[c].op = "flush" /\ calls[c].pc = "wait"
  /\ Children(calls, c) = {}
  /\ Release
  /\ calls' = [calls EXCEPT ![c] = Idle]
  /\ ret' = "void"
  /\ UNCHANGED <<connected, program, exceptionMask, heap, nextBreakpointId, breakpoints,
                 pendingBreakpoints, groups, temporaryBreakpointArrays, remote, assigned>>
  /\ UNCHANGED dmVars

(***************************************************************************)
(* clearBreakpointsType (lines 314-344) and isSameSource (392-402).        *)
(***************************************************************************)
isSameSource(source, other) ==
  \/ (source.path # Undef /\ source.path = other.path)
  \/ (source.name # Undef /\ isDisassembledFile(source.name) /\ source.name = other.name)

\* Lines 323-327: the entry is of the type and, if a source is given, of that source.
Matches(b, type, source) ==
  /\ b.breakpointType = type
  /\ (~source.def \/ (b.source.def /\ isSameSource(b.source, source)))

RECURSIVE ClearScan(_, _, _, _, _)
\* The for-of loop from index i to the next entry to remove: <<index, remaining>>;
\* the index is past the end when the loop is over.
ClearScan(arr, i, rem, type, source) ==
  IF i > Len(arr) THEN <<i, rem>>
  ELSE IF Matches(heap[arr[i]], type, source) THEN <<i, rem>>
       ELSE ClearScan(arr, i + 1, Append(rem, arr[i]), type, source)

\* The array a clear call iterates: this.breakpoints as it was when the loop began.
ClearArray(c) == IF calls[c].live THEN breakpoints ELSE calls[c].arr

\* Line 338 replaces this.breakpoints: loops still running keep the old array.
Detach(cs, c) ==
  [k \in Slots |->
     IF k # c /\ cs[k].op = "clear" /\ cs[k].pc = "rm" /\ cs[k].live
     THEN [cs[k] EXCEPT !.live = FALSE, !.arr = breakpoints]
     ELSE cs[k]]

\* Mutant: the loop iterates a copy of the list taken when it begins.
ClearContinue_Snapshot(c, i, rem, err) ==
  LET r == ClearScan(ClearArray(c), i, rem, calls[c].typ, calls[c].src)
  IN IF r[1] > Len(ClearArray(c))
     THEN /\ breakpoints' = r[2]
          /\ Release
          /\ calls' = Detach([calls EXCEPT ![c] = Idle], c)
          /\ ret' = IF err THEN "throw" ELSE "void"
     ELSE /\ UNCHANGED <<mutexHolder, breakpointLock, oldMutexes, lockMutex>>
          /\ calls' = [calls EXCEPT ![c].pc = "rm", ![c].i = r[1], ![c].rem = r[2],
                                    ![c].hasError = err,
                                    ![c].live = FALSE, ![c].arr = ClearArray(c)]
          /\ UNCHANGED <<breakpoints, ret>>

\* The loop continues from index i with `rem` and `err`, up to its next await or
\* to the return (lines 338-343).
ClearContinue(c, i, rem, err) ==
  LET r == ClearScan(ClearArray(c), i, rem, calls[c].typ, calls[c].src)
  IN IF r[1] > Len(ClearArray(c))
     THEN /\ breakpoints' = r[2]
          /\ Release
          /\ calls' = Detach([calls EXCEPT ![c] = Idle], c)
          /\ ret' = IF err THEN "throw" ELSE "void"
     ELSE /\ UNCHANGED <<mutexHolder, breakpointLock, oldMutexes, lockMutex>>
          /\ calls' = [calls EXCEPT ![c].pc = "rm", ![c].i = r[1], ![c].rem = r[2],
                                    ![c].hasError = err]
          /\ UNCHANGED <<breakpoints, ret>>

ClearBreakpointsType(type, source) ==
  /\ FreeSlots(calls) # {}
  /\ calls' = [calls EXCEPT ![MinOf(FreeSlots(calls))] =
                  [Idle EXCEPT !.op = "clear", !.pc = "acq", !.mx = ThisMutex, !.typ = type, !.src = source]]
  /\ UNCHANGED <<connected, program, exceptionMask, heap, nextBreakpointId, breakpoints,
                 pendingBreakpoints, mutexHolder, breakpointLock, oldMutexes, lockMutex, groups,
                 temporaryBreakpointArrays, remote, ret, assigned>>
  /\ UNCHANGED dmVars

\* clearBreakpointsType goes on after `await this.acquireLock()` (lines 319-321):
\* the loop begins.
ClearBegin(c) ==
  /\ calls[c].op = "clear" /\ calls[c].pc = "locked"
  /\ ClearContinue(c, 1, <<>>, FALSE)
  /\ UNCHANGED <<connected, program, exceptionMask, heap, nextBreakpointId, pendingBreakpoints,
                 groups, temporaryBreakpointArrays, remote, assigned>>
  /\ UNCHANGED dmVars

\* Mutant: the catch block forgets to keep the entry whose removal failed.
ClearRemoveDone_DropFailed(c, ok) ==
  /\ calls[c].op = "clear" /\ calls[c].pc = "rm"
  /\ LET o == ClearArray(c)[calls[c].i]
     IN /\ remote' = IF ok THEN remote \ {o} ELSE remote
        /\ ClearContinue(c, calls[c].i + 1, calls[c].rem,
                         calls[c].hasError \/ ~ok)
  /\ UNCHANGED <<connected, program, exceptionMask, heap, nextBreakpointId, pendingBreakpoints,
                 groups, temporaryBreakpointArrays, assigned>>
  /\ UNCHANGED dmVars

\* gdbProxy.removeBreakpoint settles for the entry at index i (lines 328-333).
ClearRemoveDone(c, ok) ==
  /\ calls[c].op = "clear" /\ calls[c].pc = "rm"
  /\ LET o == ClearArray(c)[calls[c].i]
     IN /\ remote' = IF ok THEN remote \ {o} ELSE remote
        /\ ClearContinue(c, calls[c].i + 1,
                         IF ok THEN calls[c].rem ELSE Append(calls[c].rem, o),
                         calls[c].hasError \/ ~ok)
  /\ UNCHANGED <<connected, program, exceptionMask, heap, nextBreakpointId, pendingBreakpoints,
                 groups, temporaryBreakpointArrays, assigned>>
  /\ UNCHANGED dmVars

(***************************************************************************)
(* removeExceptionBreakpoint (lines 281-289).                              *)
(***************************************************************************)
RemoveExceptionBreakpoint ==
  /\ FreeSlots(calls) # {}
  /\ calls' = [calls EXCEPT ![MinOf(FreeSlots(calls))] =
                  [Idle EXCEPT !.op = "rmExc", !.pc = "acq", !.mx = ThisMutex]]
  /\ UNCHANGED <<connected, program, exceptionMask, heap, nextBreakpointId, breakpoints,
                 pendingBreakpoints, mutexHolder, breakpointLock, oldMutexes, lockMutex, groups,
                 temporaryBreakpointArrays, remote, ret, assigned>>
  /\ UNCHANGED dmVars

\* removeExceptionBreakpoint goes on after `await this.acquireLock()` (lines
\* 283-285): the breakpoint is made, its removal sent.
RmExcSend(c) ==
  /\ calls[c].op = "rmExc" /\ calls[c].pc = "locked"
  /\ nextBreakpointId < MaxId
  /\ nextBreakpointId' = nextBreakpointId + 1
  /\ assigned' = Append(assigned, createExceptionBreakpoint(nextBreakpointId, exceptionMask).id)
  /\ calls' = [calls EXCEPT ![c].pc = "rm"]
  /\ UNCHANGED <<connected, program, exceptionMask, heap, breakpoints, pendingBreakpoints,
                 mutexHolder, breakpointLock, oldMutexes, lockMutex,
                 groups, temporaryBreakpointArrays, remote, ret>>
  /\ UNCHANGED dmVars

\* Mutant: no finally, the lock is released only after a successful removal.
RmExcDone_NoFinally(c, ok) ==
  /\ calls[c].op = "rmExc" /\ calls[c].pc = "rm"
  /\ IF ok THEN Release ELSE UNCHANGED <<mutexHolder, breakpointLock, oldMutexes, lockMutex>>
  /\ calls' = [calls EXCEPT ![c] = Idle]
  /\ ret' = IF ok THEN "void" ELSE "throw"
  /\ UNCHANGED <<connected, program, exceptionMask, heap, nextBreakpointId, breakpoints,
                 pendingBreakpoints, groups, temporaryBreakpointArrays, remote, assigned>>
  /\ UNCHANGED dmVars

\* gdbProxy.removeBreakpoint settles; finally releaseLock (lines 286-288).
RmExcDone(c, ok) ==
  /\ calls[c].op = "rmExc" /\ calls[c].pc = "rm"
  /\ Release
  /\ calls' = [calls EXCEPT ![c] = Idle]
  /\ ret' = IF ok THEN "void" ELSE "throw"
  /\ UNCHANGED <<connected, program, exceptionMask, heap, nextBreakpointId, breakpoints,
                 pendingBreakpoints, groups, temporaryBreakpointArrays, remote, assigned>>
  /\ UNCHANGED dmVars

(***************************************************************************)
(* Temporary breakpoint groups (lines 348-382).                            *)
(***************************************************************************)
MaxRegistered == 3

SeqRemove(seq, x) == SelectSeq(seq, LAMBDA y : y # x)
InSeq(seq, x) == \E k \in 1..Len(seq) : seq[k] = x

\* A rejected call rejects the Promise.all of the call awaiting it: that call
\* returns at once, and the calls it started run on without it.
Reject(cs, c) ==
  LET p == cs[c].parent
  IN [k \in Slots |->
        IF k = p THEN Idle
        ELSE IF p # 0 /\ cs[k].parent = p THEN [cs[k] EXCEPT !.parent = 0]
        ELSE cs[k]]

\* addTemporaryBreakpointArray(g), lines 351-354: register, send every
\* install, await Promise.all.  The call is left waiting also when the group
\* is empty.
AddTemporaryBreakpointArray(g) ==
  /\ Len(temporaryBreakpointArrays) < MaxRegistered
  /\ FreeSlots(calls) # {}
  /\ temporaryBreakpointArrays' = Append(temporaryBreakpointArrays, g)
  /\ calls' = [calls EXCEPT ![MinOf(FreeSlots(calls))] =
                  [Idle EXCEPT !.op = "addTmp", !.pc = "inst", !.grp = g,
                               !.left = 1..Len(groups[g])]]
  /\ UNCHANGED ret
  /\ UNCHANGED <<connected, program, exceptionMask, heap, nextBreakpointId, breakpoints,
                 pendingBreakpoints, mutexHolder, breakpointLock, oldMutexes, lockMutex,
                 groups, remote, assigned>>
  /\ UNCHANGED dmVars

\* Promise.all of an empty group is fulfilled: the call returns (line 355).
AddTmpFinish(c) ==
  /\ calls[c].op = "addTmp" /\ calls[c].pc = "inst"
  /\ calls[c].left = {}
  /\ calls' = [calls EXCEPT ![c] = Idle]
  /\ ret' = "void"
  /\ UNCHANGED <<connected, program, exceptionMask, heap, nextBreakpointId, breakpoints,
                 pendingBreakpoints, mutexHolder, breakpointLock, oldMutexes, lockMutex,
                 groups, temporaryBreakpointArrays, remote, assigned>>
  /\ UNCHANGED dmVars

\* Mutant: an installed member is added to the active list.
AddTmpInstallDone_Activates(c, k, ok) ==
  /\ calls[c].op = "addTmp" /\ calls[c].pc \in {"inst", "orphan"}
  /\ k \in calls[c].left
  /\ remote' = IF ok THEN remote \cup {groups[calls[c].grp][k]} ELSE remote
  /\ breakpoints' = IF ok THEN Append(breakpoints, groups[calls[c].grp][k]) ELSE breakpoints
  /\ LET left == calls[c].left \ {k}
     IN IF calls[c].pc = "inst" /\ ~ok
        THEN /\ calls' = [calls EXCEPT ![c] = IF left = {} THEN Idle
                                              ELSE [@ EXCEPT !.pc = "orphan", !.left = left]]
             /\ ret' = "throw"
        ELSE IF left = {}
        THEN /\ calls' = [calls EXCEPT ![c] = Idle]
             /\ ret' = IF calls[c].pc = "inst" THEN "void" ELSE ret
        ELSE /\ calls' = [calls EXCEPT ![c].left = left]
             /\ ret' = ret
  /\ UNCHANGED <<connected, program, exceptionMask, heap, nextBreakpointId,
                 pendingBreakpoints, mutexHolder, breakpointLock, oldMutexes, lockMutex, groups,
                 temporaryBreakpointArrays, assigned>>
  /\ UNCHANGED dmVars

\* One gdbProxy.setBreakpoint of the group settles.  The first failure rejects
\* Promise.all, and the call with it; the installs still in flight settle later.
AddTmpInstallDone(c, k, ok) ==
  /\ calls[c].op = "addTmp" /\ calls[c].pc \in {"inst", "orphan"}
  /\ k \in calls[c].left
  /\ remote' = IF ok THEN remote \cup {groups[calls[c].grp][k]} ELSE remote
  /\ LET left == calls[c].left \ {k}
     IN IF calls[c].pc = "inst" /\ ~ok
        THEN /\ calls' = [calls EXCEPT ![c] = IF left = {} THEN Idle
                                              ELSE [@ EXCEPT !.pc = "orphan", !.left = left]]
             /\ ret' = "throw"
        ELSE IF left = {}
        THEN /\ calls' = [calls EXCEPT ![c] = Idle]
             /\ ret' = IF calls[c].pc = "inst" THEN "void" ELSE ret
        ELSE /\ calls' = [calls EXCEPT ![c].left = left]
             /\ ret' = ret
  /\ UNCHANGED <<connected, program, exceptionMask, heap, nextBreakpointId, breakpoints,
                 pendingBreakpoints, mutexHolder, breakpointLock, oldMutexes, lockMutex, groups,
                 temporaryBreakpointArrays, assigned>>
  /\ UNCHANGED dmVars

\* removeTemporaryBreakpointArray(g) up to `await this.acquireLock()` (line 372).
RmTmpEnter(cs, g, parent) ==
  [cs EXCEPT ![MinOf(FreeSlots(cs))] =
     [Idle EXCEPT !.op = "rmTmp", !.pc = "acq", !.mx = ThisMutex, !.grp = g, !.parent = parent]]

RemoveTemporaryBreakpointArray(g) ==
  /\ FreeSlots(calls) # {}
  /\ calls' = RmTmpEnter(calls, g, 0)
  /\ UNCHANGED <<connected, program, exceptionMask, heap, nextBreakpointId, breakpoints,
                 pendingBreakpoints, mutexHolder, breakpointLock, oldMutexes, lockMutex, groups,
                 temporaryBreakpointArrays, remote, ret, assigned>>
  /\ UNCHANGED dmVars

\* removeTemporaryBreakpointArray goes on after `await this.acquireLock()`
\* (lines 373-375): every removal is sent.
RmTmpSend(c) ==
  /\ calls[c].op = "rmTmp" /\ calls[c].pc = "locked"
  /\ calls' = [calls EXCEPT ![c].pc = "rm", ![c].left = 1..Len(groups[calls[c].grp])]
  /\ UNCHANGED <<connected, program, exceptionMask, heap, nextBreakpointId, breakpoints,
                 pendingBreakpoints, mutexHolder, breakpointLock, oldMutexes, lockMutex,
                 groups, temporaryBreakpointArrays, remote, ret, assigned>>
  /\ UNCHANGED dmVars

\* One gdbProxy.removeBreakpoint of the group settles while Promise.all is awaited.
\* A success leaves the call waiting for the others; the first failure rejects
\* Promise.all: finally releaseLock, and the call throws (lines 379-381).
RmTmpRemoveDone(c, k, ok) ==
  /\ calls[c].op = "rmTmp" /\ calls[c].pc = "rm"
  /\ k \in calls[c].left
  /\ remote' = IF ok THEN remote \ {groups[calls[c].grp][k]} ELSE remote
  /\ LET left == calls[c].left \ {k}
     IN IF ok
        THEN /\ calls' = [calls EXCEPT ![c].left = left]
             /\ UNCHANGED <<mutexHolder, breakpointLock, oldMutexes, lockMutex, ret>>
        ELSE /\ Release
             /\ calls' = [Reject(calls, c) EXCEPT ![c] =
                             IF left = {} THEN Idle
                             ELSE [calls[c] EXCEPT !.pc = "orphan", !.left = left,
                                                   !.parent = 0]]
             /\ ret' = "throw"
  /\ UNCHANGED <<connected, program, exceptionMask, heap, nextBreakpointId, breakpoints,
                 pendingBreakpoints, groups, temporaryBreakpointArrays, assigned>>
  /\ UNCHANGED dmVars

\* A removal of a call that has already thrown settles.
RmTmpOrphanDone(c, k, ok) ==
  /\ calls[c].op = "rmTmp" /\ calls[c].pc = "orphan"
  /\ k \in calls[c].left
  /\ remote' = IF ok THEN remote \ {groups[calls[c].grp][k]} ELSE remote
  /\ calls' = [calls EXCEPT ![c] = IF calls[c].left = {k} THEN Idle
                                   ELSE [@ EXCEPT !.left = @ \ {k}]]
  /\ UNCHANGED <<connected, program, exceptionMask, heap, nextBreakpointId, breakpoints,
                 pendingBreakpoints, mutexHolder, breakpointLock, oldMutexes, lockMutex, groups,
                 temporaryBreakpointArrays, ret, assigned>>
  /\ UNCHANGED dmVars

\* Mutant: the group stays in the registry after its members were removed.
RmTmpFinish_KeepGroup(c) ==
  /\ calls[c].op = "rmTmp" /\ calls[c].pc = "rm"
  /\ calls[c].left = {}
  /\ temporaryBreakpointArrays' = temporaryBreakpointArrays
  /\ Release
  /\ calls' = [calls EXCEPT ![c] = Idle]
  /\ ret' = "void"
  /\ UNCHANGED <<connected, program, exceptionMask, heap, nextBreakpointId, breakpoints,
                 pendingBreakpoints, groups, remote, assigned>>
  /\ UNCHANGED dmVars

\* Promise.all fulfilled: drop the group, finally releaseLock (lines 376-381).
RmTmpFinish(c) ==
  /\ calls[c].op = "rmTmp" /\ calls[c].pc = "rm"
  /\ calls[c].left = {}
  /\ temporaryBreakpointArrays' = SeqRemove(temporaryBreakpointArrays, calls[c].grp)
  /\ Release
  /\ calls' = [calls EXCEPT ![c] = Idle]
  /\ ret' = "void"
  /\ UNCHANGED <<connected, program, exceptionMask, heap, nextBreakpointId, breakpoints,
                 pendingBreakpoints, groups, remote, assigned>>
  /\ UNCHANGED dmVars

\* The groups checkTemporaryBreakpoints(pc) picks (line 363).
GroupsAt(pc) ==
  SelectSeq(temporaryBreakpointArrays,
            LAMBDA g : \E k \in 1..Len(groups[g]) : heap[groups[g][k]].offset = pc)

RECURSIVE RmTmpEnterAll(_, _, _, _)
RmTmpEnterAll(cs, gs, k, parent) ==
  IF k > Len(gs) THEN cs
  ELSE RmTmpEnterAll(RmTmpEnter(cs, gs[k], parent), gs, k + 1, parent)

\* checkTemporaryBreakpoints(pc), lines 361-365, up to `await Promise.all`.
CheckTemporaryBreakpoints(pc) ==
  /\ Cardinality(FreeSlots(calls)) >= 1 + Len(GroupsAt(pc))
  /\ LET c == MinOf(FreeSlots(calls))
     IN calls' = RmTmpEnterAll(
                   [calls EXCEPT ![c] = [Idle EXCEPT !.op = "check", !.pc = "wait",
                                                     !.i = pc, !.arr = GroupsAt(pc)]],
                   GroupsAt(pc), 1, c)
  /\ UNCHANGED <<connected, program, exceptionMask, heap, nextBreakpointId, breakpoints,
                 pendingBreakpoints, mutexHolder, breakpointLock, oldMutexes, lockMutex, groups,
                 temporaryBreakpointArrays, remote, ret, assigned>>
  /\ UNCHANGED dmVars

\* Promise.all fulfilled: every removeTemporaryBreakpointArray has returned.
CheckFinish(c) ==
  /\ calls[c].op = "check" /\ calls[c].pc = "wait"
  /\ Children(calls, c) = {}
  /\ calls' = [calls EXCEPT ![c] = Idle]
  /\ ret' = "void"
  /\ UNCHANGED <<connected, program, exceptionMask, heap, nextBreakpointId, breakpoints,
                 pendingBreakpoints, mutexHolder, breakpointLock, oldMutexes, lockMutex, groups,
                 temporaryBreakpointArrays, remote, assigned>>
  /\ UNCHANGED dmVars

\* mutex.capture of call c fails with a timeout: the mutex stayed held.  Only
\* removeTemporaryBreakpointArray awaits inside its try: its finally runs
\* releaseLock (lines 371-381); the other callers just throw.
AcquireTimeout(c) ==
  /\ calls[c].pc = "acq"
  /\ HolderOf(Lock, calls[c].mx) # 0
  /\ IF calls[c].op = "rmTmp" THEN Release ELSE UNCHANGED <<mutexHolder, breakpointLock, oldMutexes, lockMutex>>
  /\ calls' = [Reject(calls, c) EXCEPT ![c] = Idle]
  /\ ret' = "timeout"
  /\ UNCHANGED <<connected, program, exceptionMask, heap, nextBreakpointId, breakpoints,
                 pendingBreakpoints, groups, temporaryBreakpointArrays, remote, assigned>>
  /\ UNCHANGED dmVars

(***************************************************************************)
(* Factory calls (lines 197-276, 384-388) and the collaborators' own moves.*)
(***************************************************************************)
MaxObjs == 3

\* Mutant: the factory reads the counter without moving it on.
Created_NoIncrement(b) ==
  /\ Len(heap) < MaxObjs
  /\ nextBreakpointId < MaxId
  /\ heap' = Append(heap, b)
  /\ nextBreakpointId' = nextBreakpointId
  /\ assigned' = Append(assigned, b.id)

\* A factory returns object b: the heap holds it, the counter moves on.
Created(b) ==
  /\ Len(heap) < MaxObjs
  /\ nextBreakpointId < MaxId
  /\ heap' = Append(heap, b)
  /\ nextBreakpointId' = nextBreakpointId + 1
  /\ assigned' = Append(assigned, b.id)

CreateBreakpoint(source, line) ==
  /\ Created(createBreakpoint(nextBreakpointId, source, line))
  /\ UNCHANGED <<connected, program, exceptionMask, breakpoints, pendingBreakpoints, mutexHolder,
                 breakpointLock, oldMutexes, lockMutex, groups, temporaryBreakpointArrays, remote, calls, ret>>
  /\ UNCHANGED dmVars

CreateTemporaryBreakpoint(address) ==
  /\ Created(createTemporaryBreakpoint(nextBreakpointId, address))
  /\ UNCHANGED <<connected, program, exceptionMask, breakpoints, pendingBreakpoints, mutexHolder,
                 breakpointLock, oldMutexes, lockMutex, groups, temporaryBreakpointArrays, remote, calls, ret>>
  /\ UNCHANGED dmVars

CreateInstructionBreakpoint(address) ==
  /\ Created(createInstructionBreakpoint(nextBreakpointId, address))
  /\ UNCHANGED <<connected, program, exceptionMask, breakpoints, pendingBreakpoints, mutexHolder,
                 breakpointLock, oldMutexes, lockMutex, groups, temporaryBreakpointArrays, remote, calls, ret>>
  /\ UNCHANGED dmVars

CreateDataBreakpoint(offset, message) ==
  /\ Created(createDataBreakpoint(nextBreakpointId, offset, message))
  /\ UNCHANGED <<connected, program, exceptionMask, breakpoints, pendingBreakpoints, mutexHolder,
                 breakpointLock, oldMutexes, lockMutex, groups, temporaryBreakpointArrays, remote, calls, ret>>
  /\ UNCHANGED dmVars

CreateExceptionBreakpoint ==
  /\ Created(createExceptionBreakpoint(nextBreakpointId, exceptionMask))
  /\ UNCHANGED <<connected, program, exceptionMask, breakpoints, pendingBreakpoints, mutexHolder,
                 breakpointLock, oldMutexes, lockMutex, groups, temporaryBreakpointArrays, remote, calls, ret>>
  /\ UNCHANGED dmVars

\* createTemporaryBreakpointArray(offsets), lines 384-388.
CreateTemporaryBreakpointArray(offsets) ==
  /\ Len(heap) + Len(offsets) <= MaxObjs
  /\ nextBreakpointId + Len(offsets) <= MaxId
  /\ LET made == [k \in 1..Len(offsets) |->
                    createTemporaryBreakpoint(nextBreakpointId + k - 1, offsets[k])]
     IN /\ heap' = heap \o made
        /\ groups' = Append(groups, [k \in 1..Len(offsets) |-> Len(heap) + k])
        /\ assigned' = assigned \o [k \in 1..Len(offsets) |-> made[k].id]
  /\ nextBreakpointId' = nextBreakpointId + Len(offsets)
  /\ UNCHANGED <<connected, program, exceptionMask, breakpoints, pendingBreakpoints, mutexHolder,
                 breakpointLock, oldMutexes, lockMutex, temporaryBreakpointArrays, remote, calls, ret>>
  /\ UNCHANGED dmVars

\* setExceptionBreakpoint(), lines 273-276.
SetExceptionBreakpoint ==
  /\ FreeSlots(calls) # {}
  /\ Room
  /\ Len(heap) < MaxObjs
  /\ nextBreakpointId < MaxId
  /\ nextBreakpointId' = nextBreakpointId + 1
  /\ assigned' = Append(assigned, createExceptionBreakpoint(nextBreakpointId, exceptionMask).id)
  /\ Apply(SetEnter([Cur EXCEPT !.heap = Append(heap, createExceptionBreakpoint(nextBreakpointId, exceptionMask))],
                    Len(heap) + 1, 0))
  /\ UNCHANGED <<connected, program, exceptionMask, breakpoints, mutexHolder, breakpointLock, oldMutexes, lockMutex,
                 groups, temporaryBreakpointArrays, remote>>
  /\ UNCHANGED dmVars

Masks == {5, DEFAULT_EXCEPTION_MASK}

\* setExceptionMask (lines 58-61).
SetExceptionMask(mask) ==
  /\ exceptionMask' = mask
  /\ UNCHANGED <<connected, program, heap, nextBreakpointId, breakpoints, pendingBreakpoints,
                 mutexHolder, breakpointLock, oldMutexes, lockMutex, groups,
                 temporaryBreakpointArrays, remote, calls, ret, assigned>>
  /\ UNCHANGED dmVars

\* The remote session connects or disconnects.
Connect ==
  /\ connected' = ~connected
  /\ UNCHANGED <<program, exceptionMask, heap, nextBreakpointId, breakpoints, pendingBreakpoints,
                 mutexHolder, breakpointLock, oldMutexes, lockMutex, groups, temporaryBreakpointArrays,
                 remote, calls, ret, assigned>>
  /\ UNCHANGED dmVars

\* setProgram (lines 66-69).
SetProgram ==
  /\ ~program
  /\ program' = TRUE
  /\ UNCHANGED <<connected, exceptionMask, heap, nextBreakpointId, breakpoints, pendingBreakpoints,
                 mutexHolder, breakpointLock, oldMutexes, lockMutex, groups, temporaryBreakpointArrays,
                 remote, calls, ret, assigned>>
  /\ UNCHANGED dmVars

(***************************************************************************)
(* Strings of the disassembly side are sequences of one-character strings; *)
(* a number that may be undefined or NaN is a record.                      *)
(***************************************************************************)
Num(n) == [kind |-> "number", v |-> n]
NaN == [kind |-> "NaN", v |-> 0]
NoNumber == [kind |-> "undefined", v |-> 0]
Str(s) == [def |-> TRUE, s |-> s]
NoString == [def |-> FALSE, s |-> <<>>]

HexDigits == <<"0", "1", "2", "3", "4", "5", "6", "7", "8", "9", "a", "b", "c", "d", "e", "f">>
UpperDigits == <<"0", "1", "2", "3", "4", "5", "6", "7", "8", "9", "A", "B", "C", "D", "E", "F">>
\* parseInt reads the digits of either case.
IsDigit(ch, radix) == \E d \in 1..radix : ch \in {HexDigits[d], UpperDigits[d]}
DigitValue(ch) == (CHOOSE d \in 1..16 : ch \in {HexDigits[d], UpperDigits[d]}) - 1

RECURSIVE NatToString(_, _)
\* Number.prototype.toString(radix) of a natural number.
NatToString(n, radix) ==
  IF n < radix THEN <<HexDigits[n + 1]>>
  ELSE NatToString(n \div radix, radix) \o <<HexDigits[(n % radix) + 1]>>

\* `${x}` for x: number | undefined.
NumberToString(x) ==
  IF x.kind = "undefined" THEN <<"u", "n", "d", "e", "f", "i", "n", "e", "d">>
  ELSE IF x.kind = "NaN" THEN <<"N", "a", "N">>
  ELSE IF x.v < 0 THEN <<"-">> \o NatToString(-x.v, 10)
  ELSE NatToString(x.v, 10)

\* `${x}` for x: string | undefined.
StringToString(x) ==
  IF x.def THEN x.s ELSE <<"u", "n", "d", "e", "f", "i", "n", "e", "d">>

RECURSIVE ParseDigits(_, _, _, _)
\* The value of the longest run of digits of s from index k on.
ParseDigits(s, k, radix, acc) ==
  IF k > Len(s) \/ ~IsDigit(s[k], radix) THEN acc
  ELSE ParseDigits(s, k + 1, radix, acc * radix + DigitValue(s[k]))

\* The white space and line terminators parseInt skips (StrWhiteSpaceChar):
\* tab, line feed, carriage return, form feed, vertical tab, space, U+00A0,
\* U+FEFF, U+1680, then U+2000 to U+200A, U+2028, U+2029, U+202F, U+205F and
\* U+3000.  A character a string of this language cannot hold is the
\* one-element token <U+XXXX>.
WhiteSpace ==
  {" ", "\t", "\n", "\r", "\f", "", " ", "﻿", " ",
   "<U+2000>", "<U+2001>", "<U+2002>", "<U+2003>", "<U+2004>", "<U+2005>",
   "<U+2006>", "<U+2007>", "<U+2008>", "<U+2009>", "<U+200A>",
   "<U+2028>", "<U+2029>", "<U+202F>", "<U+205F>", "<U+3000>"}

RECURSIVE SkipSpaces(_, _)
SkipSpaces(s, k) ==
  IF k <= Len(s) /\ s[k] \in WhiteSpace THEN SkipSpaces(s, k + 1) ELSE k

\* parseInt(s) without a radix: leading blanks, a sign, 0x for hexadecimal,
\* then the longest run of digits; NaN when there is none.
parseInt(s) ==
  LET k0 == SkipSpaces(s, 1)
      signed == k0 <= Len(s) /\ s[k0] \in {"-", "+"}
      neg == signed /\ s[k0] = "-"
      k1 == IF signed THEN k0 + 1 ELSE k0
      hex == k1 + 1 <= Len(s) /\ s[k1] = "0" /\ s[k1 + 1] \in {"x", "X"}
      k2 == IF hex THEN k1 + 2 ELSE k1
      radix == IF hex THEN 16 ELSE 10
      n == ParseDigits(s, k2, radix, 0)
  IN IF k2 > Len(s) \/ ~IsDigit(s[k2], radix) THEN NaN
     ELSE Num(IF neg THEN -n ELSE n)

\* formatAddress (utils/strings.ts): "$" and the value in hexadecimal.
formatAddress(value) == <<"$">> \o NatToString(value, 16)

(***************************************************************************)
(* DisassembledFile (disassemblyManager.ts, lines 10-129).                 *)
(***************************************************************************)
\* new DisassembledFile(): the field initialisers of lines 11-16.
NewFile ==
  [path |-> <<>>, segmentId |-> NoNumber, stackFrameIndex |-> NoNumber,
   addressExpression |-> NoString, length |-> NoNumber, copper |-> FALSE]

isSegment(f) == f.segmentId.kind # "undefined"
isCopper(f) == f.copper

Ext == <<".", "d", "b", "g", "a", "s", "m">>

toString(f) ==
  IF isSegment(f)
  THEN f.path \o <<"s", "e", "g", "_">> \o NumberToString(f.segmentId) \o Ext
  ELSE IF isCopper(f)
  THEN f.path \o <<"c", "o", "p", "p", "e", "r", "_">> \o StringToString(f.addressExpression)
         \o <<"_", "_">> \o NumberToString(f.length) \o Ext
  ELSE f.path \o NumberToString(f.stackFrameIndex) \o <<"_", "_">>
         \o StringToString(f.addressExpression) \o <<"_", "_">>
         \o NumberToString(f.length) \o Ext

\* The characters the dot of a regular expression without the s flag does not
\* match: line feed, carriage return, U+2028 and U+2029.
LineTerminators == {"\n", "\r", "<U+2028>", "<U+2029>"}

\* The tail `.dbgasm$` of the three patterns: the dot is not escaped and
\* matches any character but a line terminator.
EndsDbgasm(s) ==
  /\ Len(s) >= 7
  /\ SubSeq(s, Len(s) - 5, Len(s)) = Tail(Ext)
  /\ s[Len(s) - 6] \notin LineTerminators

\* `(?<path>.+\/)?` takes the first p characters: none, or at least one
\* character that is no line terminator and then a slash.
PathGroup(s, p) ==
  \/ p = 0
  \/ /\ p >= 2
     /\ s[p] = "/"
     /\ \A k \in 1..(p - 1) : s[k] \notin LineTerminators

RECURSIVE Split(_, _)
\* The fields of s between its underscores.
Split(s, k) ==
  IF k > Len(s) THEN <<SubSeq(s, 1, Len(s))>>
  ELSE IF s[k] = "_" THEN <<SubSeq(s, 1, k - 1)>> \o Split(SubSeq(s, k + 1, Len(s)), 1)
  ELSE Split(s, k + 1)

\* What the patterns ask between the path group and the tail, on the fields:
\* `seg_[^_]+`, `copper_[^_]+__[^_]+`, `[^_]+__[^_]+__[^_]+`.
SegFields(fs) == Len(fs) = 2 /\ fs[1] = <<"s", "e", "g">> /\ fs[2] # <<>>
CopperFields(fs) ==
  /\ Len(fs) = 4
  /\ fs[1] = <<"c", "o", "p", "p", "e", "r">>
  /\ fs[2] # <<>> /\ fs[3] = <<>> /\ fs[4] # <<>>
AddressFields(fs) ==
  /\ Len(fs) = 5
  /\ fs[1] # <<>> /\ fs[2] = <<>> /\ fs[3] # <<>> /\ fs[4] = <<>> /\ fs[5] # <<>>

FieldsAfter(s, p) == Split(SubSeq(s, p + 1, Len(s) - 7), 1)

\* The lengths of path group with which a pattern matches s.
SegMatches(s) ==
  {p \in 0..Len(s) : EndsDbgasm(s) /\ p <= Len(s) - 7 /\ PathGroup(s, p)
                       /\ SegFields(FieldsAfter(s, p))}
CopperMatches(s) ==
  {p \in 0..Len(s) : EndsDbgasm(s) /\ p <= Len(s) - 7 /\ PathGroup(s, p)
                       /\ CopperFields(FieldsAfter(s, p))}
AddressMatches(s) ==
  {p \in 0..Len(s) : EndsDbgasm(s) /\ p <= Len(s) - 7 /\ PathGroup(s, p)
                       /\ AddressFields(FieldsAfter(s, p))}

\* The match the regular expression reports: the optional group is greedy.
MaxOf(S) == CHOOSE x \in S : \A y \in S : y <= x

\* fromPath(path), lines 82-118: the parsed file, or the error it throws.
fromPath(s) ==
  IF SegMatches(s) # {}
  THEN LET p == MaxOf(SegMatches(s))
           fs == FieldsAfter(s, p)
       IN [ok |-> TRUE,
           file |-> [NewFile EXCEPT !.path = SubSeq(s, 1, p),
                                    !.segmentId = parseInt(fs[2])]]
  ELSE IF CopperMatches(s) # {}
  THEN LET p == MaxOf(CopperMatches(s))
           fs == FieldsAfter(s, p)
       IN [ok |-> TRUE,
           file |-> [NewFile EXCEPT !.path = SubSeq(s, 1, p),
                                    !.addressExpression = Str(fs[2]),
                                    !.length = parseInt(fs[4]),
                                    !.copper = TRUE]]
  ELSE IF AddressMatches(s) # {}
  THEN LET p == MaxOf(AddressMatches(s))
           fs == FieldsAfter(s, p)
       IN [ok |-> TRUE,
           file |-> [NewFile EXCEPT !.path = SubSeq(s, 1, p),
                                    !.stackFrameIndex = parseInt(fs[1]),
                                    !.addressExpression = Str(fs[3]),
                                    !.length = parseInt(fs[5])]]
  ELSE [ok |-> FALSE, file |-> NewFile]

\* A DisassembledFile and its callers: file is the object, string the last
\* string a caller got from toString or toURI (or a path it got elsewhere),
\* parsed the result of the last fromPath.
DfIdle == [stage |-> "none", file |-> NewFile, string |-> <<>>,
           parsed |-> [ok |-> FALSE, file |-> NewFile]]

\* setPath(path), lines 18-21.
setPath(path) ==
  /\ df' = [df EXCEPT !.file.path = path]
  /\ UNCHANGED <<lineCache, dmCalls, dmRet, dmLog, dmOut>>
  /\ UNCHANGED bpVars

\* setSegmentId(segmentId), lines 23-26.
setSegmentId(segmentId) ==
  /\ df' = [df EXCEPT !.file.segmentId = Num(segmentId)]
  /\ UNCHANGED <<lineCache, dmCalls, dmRet, dmLog, dmOut>>
  /\ UNCHANGED bpVars

\* setStackFrameIndex(stackFrameIndex), lines 32-35.
setStackFrameIndex(stackFrameIndex) ==
  /\ df' = [df EXCEPT !.file.stackFrameIndex = Num(stackFrameIndex)]
  /\ UNCHANGED <<lineCache, dmCalls, dmRet, dmLog, dmOut>>
  /\ UNCHANGED bpVars

\* setAddressExpression(addressExpression), lines 41-44.
setAddressExpression(addressExpression) ==
  /\ df' = [df EXCEPT !.file.addressExpression = Str(addressExpression)]
  /\ UNCHANGED <<lineCache, dmCalls, dmRet, dmLog, dmOut>>
  /\ UNCHANGED bpVars

\* setLength(length), lines 50-53.
setLength(length) ==
  /\ df' = [df EXCEPT !.file.length = Num(length)]
  /\ UNCHANGED <<lineCache, dmCalls, dmRet, dmLog, dmOut>>
  /\ UNCHANGED bpVars

\* setCopper(isCopper), lines 63-66.
setCopper(copper) ==
  /\ df' = [df EXCEPT !.file.copper = copper]
  /\ UNCHANGED <<lineCache, dmCalls, dmRet, dmLog, dmOut>>
  /\ UNCHANGED bpVars

\* A caller prints the file as it is now; the result of an earlier fromPath
\* is dropped.
DfToString ==
  /\ df.stage \in {"file", "printed", "parsed"}
  /\ df' = [df EXCEPT !.stage = "printed", !.string = toString(df.file),
                      !.parsed = DfIdle.parsed]
  /\ UNCHANGED <<lineCache, dmCalls, dmRet, dmLog, dmOut>>
  /\ UNCHANGED bpVars

DfFromPath ==
  /\ df.stage \in {"printed", "raw"}
  /\ df' = [df EXCEPT !.stage = IF df.stage = "raw" THEN "rawParsed" ELSE "parsed",
                      !.parsed = fromPath(df.string)]
  /\ UNCHANGED <<lineCache, dmCalls, dmRet, dmLog, dmOut>>
  /\ UNCHANGED bpVars

RECURSIVE ReplaceFirst(_, _, _)
\* String.prototype.replace with a string pattern of one character: the first
\* occurrence is replaced, the others stay.
ReplaceFirst(s, ch, r) ==
  IF s = <<>> THEN <<>>
  ELSE IF Head(s) = ch THEN r \o Tail(s)
  ELSE <<Head(s)>> \o ReplaceFirst(Tail(s), ch, r)

\* toURI(), lines 120-124.
toURI(f) ==
  <<"d", "i", "s", "a", "s", "s", "e", "m", "b", "l", "y", ":">> \o ReplaceFirst(toString(f), "#", <<"%", "2", "3">>)

\* A caller asks the file, as it is now, for its URI.
DfToURI ==
  /\ df.stage \in {"file", "uri"}
  /\ df' = [df EXCEPT !.stage = "uri", !.string = toURI(df.file)]
  /\ UNCHANGED <<lineCache, dmCalls, dmRet, dmLog, dmOut>>
  /\ UNCHANGED bpVars

(***************************************************************************)
(* DisassemblyManager.disassembleLine (lines 141-175).                     *)
(***************************************************************************)
MaxDmCalls == 2
MaxDmStarts == 3

DmSlots == 1..MaxDmCalls
DmPcs == {4, 26}
\* What gdb.isCopperThread / gdb.isCPUThread say of the thread.
Threads == {"cpu", "copper", "other"}

\* No DisassembledLine: lineCache.get(pc) is undefined.
NoLine == [text |-> <<>>, isCopper |-> FALSE]

\* The text selected from the decoder's output, or the decoder throwing.
Decoded == {[ok |-> TRUE, body |-> <<"n", "o", "p">>],
            [ok |-> TRUE, body |-> <<"r", "t", "s">>],
            [ok |-> FALSE, body |-> <<>>]}

\* A call of the manager in progress: its arguments and locals.  parent is
\* the getStackFrame call that awaits a disassembleLine, 0 for a caller's own.
DmIdle == [op |-> "idle", stage |-> "none", pc |-> 0, thread |-> "none",
           text |-> <<>>, isCopper |-> FALSE, parent |-> 0, index |-> 0,
           cop1Addr |-> NoNumber, path |-> <<>>, lineNumber |-> 0,
           file |-> NewFile, address |-> NoNumber]

DmFree == {c \in DmSlots : dmCalls[c].op = "idle"}
DmQuiet == DmFree = DmSlots

\* disassembleLine(pc, thread) at its first await (lines 150-153): the text
\* starts with the address, and gdb.getMemory is awaited.
LineCall(pc, thread, parent) ==
  [DmIdle EXCEPT !.op = "line", !.stage = "mem", !.pc = pc, !.thread = thread,
                 !.text = formatAddress(pc) \o <<":", " ">>,
                 !.isCopper = (thread = "copper"), !.parent = parent]

\* Lines 145-153: a cached line is returned at once; otherwise the text starts
\* with the address and gdb.getMemory is awaited.
DisassembleLine(pc, thread) ==
  /\ DmFree # {}
  /\ dmLog[pc].calls < MaxDmStarts
  /\ IF lineCache[pc] # NoLine
     THEN /\ dmRet' = lineCache[pc]
          /\ dmLog' = [dmLog EXCEPT ![pc].calls = @ + 1]
          /\ UNCHANGED dmCalls
     ELSE /\ dmCalls' = [dmCalls EXCEPT ![MinOf(DmFree)] = LineCall(pc, thread, 0)]
          /\ dmLog' = [dmLog EXCEPT ![pc].calls = @ + 1, ![pc].fetches = @ + 1]
          /\ UNCHANGED dmRet
  /\ UNCHANGED <<df, lineCache, dmOut>>
  /\ UNCHANGED bpVars

\* Call c returns line (lines 147, 174): to its caller, or to the
\* getStackFrame that awaits it (line 188).
DmReturn(c, line) ==
  /\ dmRet' = line
  /\ dmCalls' = IF dmCalls[c].parent = 0
                THEN [dmCalls EXCEPT ![c] = DmIdle]
                ELSE [dmCalls EXCEPT ![c] = DmIdle,
                                     ![dmCalls[c].parent].stage = "labelled",
                                     ![dmCalls[c].parent].text = line.text,
                                     ![dmCalls[c].parent].isCopper = line.isCopper]

\* Lines 169 and 174: the line is cached and returned.
DmCacheAndReturn(c, text) ==
  /\ lineCache' = [lineCache EXCEPT ![dmCalls[c].pc] =
                      [text |-> text, isCopper |-> dmCalls[c].isCopper]]
  /\ DmReturn(c, [text |-> text, isCopper |-> dmCalls[c].isCopper])

\* Mutant: the catch block caches the line it is about to return.
DmCatchAndReturn_Caches(c) ==
  /\ lineCache' = [lineCache EXCEPT ![dmCalls[c].pc] =
                      [text |-> dmCalls[c].text, isCopper |-> dmCalls[c].isCopper]]
  /\ DmReturn(c, [text |-> dmCalls[c].text, isCopper |-> dmCalls[c].isCopper])

\* Lines 170-174: the error is logged; the line returned has the address only.
DmCatchAndReturn(c) ==
  /\ lineCache' = lineCache
  /\ DmReturn(c, [text |-> dmCalls[c].text, isCopper |-> dmCalls[c].isCopper])

\* gdb.getMemory settles (line 153).  A copper thread's memory is decoded at
\* once (155-157); a CPU thread's goes to the disassembler, which is awaited
\* (160); any other thread's line keeps the address only and is cached.
DmMemoryDone(c, ok, d) ==
  /\ dmCalls[c].op = "line" /\ dmCalls[c].stage = "mem"
  /\ IF ~ok THEN DmCatchAndReturn(c)
     ELSE IF dmCalls[c].isCopper
     THEN IF d.ok THEN DmCacheAndReturn(c, dmCalls[c].text \o d.body)
          ELSE DmCatchAndReturn(c)
     ELSE IF dmCalls[c].thread = "cpu"
     THEN /\ dmCalls' = [dmCalls EXCEPT ![c].stage = "dis"]
          /\ UNCHANGED <<lineCache, dmRet>>
     ELSE DmCacheAndReturn(c, dmCalls[c].text)
  /\ UNCHANGED <<df, dmLog, dmOut>>
  /\ UNCHANGED bpVars

\* disassemble(memory) settles (lines 160-167).
DmDisassembleDone(c, d) ==
  /\ dmCalls[c].op = "line" /\ dmCalls[c].stage = "dis"
  /\ IF d.ok THEN DmCacheAndReturn(c, dmCalls[c].text \o d.body)
     ELSE DmCatchAndReturn(c)
  /\ UNCHANGED <<df, dmLog, dmOut>>
  /\ UNCHANGED bpVars

(***************************************************************************)
(* Numbers and strings of the manager (utils/strings.ts, lines 172-174).   *)
(***************************************************************************)
\* x.toString(radix) of a number that may be NaN.
NumberToStringRadix(x, radix) ==
  IF x.kind = "NaN" THEN <<"N", "a", "N">>
  ELSE IF x.v < 0 THEN <<"-">> \o NatToString(-x.v, radix)
  ELSE NatToString(x.v, radix)

\* String.prototype.padStart(n, ch).
PadStart(s, n, ch) ==
  IF Len(s) >= n THEN s ELSE [i \in 1..(n - Len(s)) |-> ch] \o s

\* formatHexadecimal(address) with the default pad of 8.
formatHexadecimal(address) ==
  <<"0", "x">> \o PadStart(NumberToStringRadix(address, 16), 8, "0")

\* parseInt(s, radix): leading blanks, a sign, 0x when the radix is 16, then
\* the longest run of digits of the radix; NaN when there is none.
parseIntRadix(s, radix) ==
  LET k0 == SkipSpaces(s, 1)
      signed == k0 <= Len(s) /\ s[k0] \in {"-", "+"}
      neg == signed /\ s[k0] = "-"
      k1 == IF signed THEN k0 + 1 ELSE k0
      hex == radix = 16 /\ k1 + 1 <= Len(s) /\ s[k1] = "0" /\ s[k1 + 1] \in {"x", "X"}
      k2 == IF hex THEN k1 + 2 ELSE k1
      n == ParseDigits(s, k2, radix, 0)
  IN IF k2 > Len(s) \/ ~IsDigit(s[k2], radix) THEN NaN
     ELSE Num(IF neg THEN -n ELSE n)

\* A number in a condition: NaN and 0 are false.
Truthy(x) == x.kind = "number" /\ x.v # 0

\* x + k for a number that may be NaN.
Plus(x, k) == IF x.kind = "number" THEN Num(x.v + k) ELSE x

(***************************************************************************)
(* The collaborators: the loaded segment, and the decoders' instruction    *)
(* lists.                                                                  *)
(***************************************************************************)
\* Segment 0 is loaded at SegBase and is SegSize bytes long.
SegBase == 64
SegSize == 8

\* gdb.toRelativeOffset(address): the segment and the offset in it, a
\* negative segment outside the segments.
toRelativeOffset(address) ==
  IF address >= SegBase /\ address < SegBase + SegSize
  THEN <<0, address - SegBase>> ELSE <<-1, address>>

\* gdb.toAbsoluteOffset(segmentId, offset) for the loaded segment.
toAbsoluteOffset(segmentId, offset) == Num(SegBase + offset)

MaxInstr == 3

\* The instructions the CPU decoder returns for n instructions from start:
\* their addresses, as the strings the decoder writes.
Instructions(start, n) ==
  [i \in 1..n |-> formatHexadecimal(Plus(start, (i - 1) * 2))]

\* disassembleCopper(memory).map(...), lines 370-374: the addresses of n
\* four-byte instructions.
CopperInstructions(address, n) ==
  [i \in 1..n |-> formatHexadecimal(Plus(address, (i - 1) * 4))]

\* What getStackFrame or getAddressForFileEditorLine settled with.
NoFrameSource == [def |-> FALSE, name |-> <<>>, path |-> <<>>]
NoFrame == [id |-> 0, name |-> <<>>, source |-> NoFrameSource, line |-> 0,
            column |-> 0, instructionPointerReference |-> <<>>]
NoOut == [kind |-> "none", value |-> NoNumber, message |-> <<>>, frame |-> NoFrame]
Returned(v) == [NoOut EXCEPT !.kind = "value", !.value = v]
Thrown(m) == [NoOut EXCEPT !.kind = "error", !.message = m]
FrameOut(sf) == [NoOut EXCEPT !.kind = "frame", !.frame = sf]

\* The message of a rejected collaborator call.
ErrGdb == <<"g", "d", "b", " ", "e", "r", "r", "o", "r">>

(***************************************************************************)
(* DisassemblyManager.getStackFrame (lines 182-255).                       *)
(***************************************************************************)
\* new StackFrame(i, nm): no source, line and column 0.
StackFrame(i, nm) == [NoFrame EXCEPT !.id = i, !.name = nm]

\* Lines 193-197.
FrameFile(index, copper) ==
  [NewFile EXCEPT !.copper = copper, !.stackFrameIndex = Num(index), !.length = Num(500)]

\* Lines 245-254: the frame returned for the file and line number found.
Frame(index, label, address, dAsmFile, lineNumber, copper) ==
  LET sf == [StackFrame(index, label) EXCEPT
               !.instructionPointerReference = formatHexadecimal(Num(address))]
  IN IF lineNumber >= 0 /\ copper
     THEN [sf EXCEPT !.source = [def |-> TRUE, name |-> toString(dAsmFile),
                                 path |-> toURI(dAsmFile)],
                     !.line = lineNumber,
                     !.column = 1]
     ELSE sf

\* getStackFrame of call c returns.
FrameReturn(c, dAsmFile, lineNumber) ==
  /\ dmOut' = FrameOut(Frame(dmCalls[c].index, dmCalls[c].text, dmCalls[c].pc,
                             dAsmFile, lineNumber, dmCalls[c].isCopper))
  /\ dmCalls' = [dmCalls EXCEPT ![c] = DmIdle]

\* getStackFrame(stackPosition, thread) up to `await this.disassembleLine`
\* (lines 186-191): disassembleLine runs up to its return or its first await.
GetStackFrame(index, pc, thread) ==
  /\ dmLog[pc].calls < MaxDmStarts
  /\ IF lineCache[pc] # NoLine
     THEN /\ DmFree # {}
          /\ dmCalls' = [dmCalls EXCEPT ![MinOf(DmFree)] =
                           [DmIdle EXCEPT !.op = "frame", !.stage = "labelled",
                                          !.pc = pc, !.thread = thread, !.index = index,
                                          !.text = lineCache[pc].text,
                                          !.isCopper = lineCache[pc].isCopper]]
          /\ dmRet' = lineCache[pc]
          /\ dmLog' = [dmLog EXCEPT ![pc].calls = @ + 1]
     ELSE /\ Cardinality(DmFree) >= 2
          /\ LET c == MinOf(DmFree)
                 k == MinOf(DmFree \ {c})
             IN dmCalls' = [dmCalls EXCEPT
                              ![c] = [DmIdle EXCEPT !.op = "frame", !.stage = "label",
                                                    !.pc = pc, !.thread = thread,
                                                    !.index = index],
                              ![k] = LineCall(pc, thread, c)]
          /\ dmLog' = [dmLog EXCEPT ![pc].calls = @ + 1, ![pc].fetches = @ + 1]
          /\ UNCHANGED dmRet
  /\ UNCHANGED <<df, lineCache, dmOut>>
  /\ UNCHANGED bpVars

\* Lines 193-223 and 242: the label is there.  A CPU address in a segment
\* awaits the segment's memory, a copper address awaits list 1's pointer,
\* any other address gets its own address as expression and line 1.
FrameLabelled(c) ==
  /\ dmCalls[c].op = "frame" /\ dmCalls[c].stage = "labelled"
  /\ LET address == dmCalls[c].pc
         copper == dmCalls[c].isCopper
         segmentId == toRelativeOffset(address)[1]
     IN IF segmentId >= 0 /\ ~copper
        THEN /\ dmCalls' = [dmCalls EXCEPT ![c].stage = "segmem"]
             /\ UNCHANGED dmOut
        ELSE IF copper
        THEN /\ dmCalls' = [dmCalls EXCEPT ![c].stage = "cop1"]
             /\ UNCHANGED dmOut
        ELSE FrameReturn(c, [FrameFile(dmCalls[c].index, copper) EXCEPT
                               !.addressExpression =
                                  Str(<<"$">> \o NumberToStringRadix(Num(address), 16))],
                         1)
  /\ UNCHANGED <<df, lineCache, dmRet, dmLog>>
  /\ UNCHANGED bpVars

\* The file of a frame in a segment (line 204).
SegmentFile(c) ==
  [FrameFile(dmCalls[c].index, dmCalls[c].isCopper) EXCEPT
     !.segmentId = Num(toRelativeOffset(dmCalls[c].pc)[1])]

\* gdb.getSegmentMemory settles (line 340).  A failure is caught at lines
\* 211-214: the line number is -1.
FrameSegMemDone(c, ok) ==
  /\ dmCalls[c].op = "frame" /\ dmCalls[c].stage = "segmem"
  /\ IF ok
     THEN /\ dmCalls' = [dmCalls EXCEPT ![c].stage = "segdis"]
          /\ UNCHANGED dmOut
     ELSE FrameReturn(c, SegmentFile(c), -1)
  /\ UNCHANGED <<df, lineCache, dmRet, dmLog>>
  /\ UNCHANGED bpVars

\* instructions.findIndex((instr) => parseInt(instr.address) === offset),
\* lines 342-344; -1 when there is none.
findIndex(instructions, offset) ==
  LET hits == {i \in 1..Len(instructions) : parseInt(instructions[i]) = Num(offset)}
  IN IF hits = {} THEN -1 ELSE MinOf(hits) - 1

\* disassemble(memory) settles (lines 341-350, then 211-217): the 1-based
\* index of the instruction at the offset, -1 when it is not found or the
\* decoder failed.
FrameSegDisDone(c, ok, n) ==
  /\ dmCalls[c].op = "frame" /\ dmCalls[c].stage = "segdis"
  /\ LET offset == toRelativeOffset(dmCalls[c].pc)[2]
         index == findIndex(Instructions(Num(0), n), offset)
     IN FrameReturn(c, SegmentFile(c), IF ok /\ index # -1 THEN index + 1 ELSE -1)
  /\ UNCHANGED <<df, lineCache, dmRet, dmLog>>
  /\ UNCHANGED bpVars

\* getCopperAddress(1) settles (lines 222, 353-357).  getStackFrame does not
\* catch a failure of it.
FrameCop1Done(c, ok, memory) ==
  /\ dmCalls[c].op = "frame" /\ dmCalls[c].stage = "cop1"
  /\ IF ok
     THEN /\ dmCalls' = [dmCalls EXCEPT ![c].stage = "cop2",
                                        ![c].cop1Addr = parseIntRadix(memory, 16)]
          /\ UNCHANGED dmOut
     ELSE /\ dmCalls' = [dmCalls EXCEPT ![c] = DmIdle]
          /\ dmOut' = Thrown(ErrGdb)
  /\ UNCHANGED <<df, lineCache, dmRet, dmLog>>
  /\ UNCHANGED bpVars

\* Lines 224-229: the line of address in the list at copAddr, -1 without list.
LineInCop(address, copAddr) ==
  IF Truthy(copAddr) THEN (address - copAddr.v + 4) \div 4 ELSE -1

\* Lines 219-241: the list selected, its pointer and the line in it.
SelectCopperList(address, cop1Addr, cop2Addr) ==
  LET lineInCop1 == LineInCop(address, cop1Addr)
      lineInCop2 == LineInCop(address, cop2Addr)
  IN IF lineInCop1 >= 0 /\ (lineInCop2 = -1 \/ lineInCop1 <= lineInCop2)
     THEN [newAddress |-> cop1Addr, lineNumber |-> lineInCop1]
     ELSE IF lineInCop2 >= 0
     THEN [newAddress |-> cop2Addr, lineNumber |-> lineInCop2]
     ELSE [newAddress |-> Num(address), lineNumber |-> 1]

\* getCopperAddress(2) settles (line 223), then lines 224-254.
FrameCop2Done(c, ok, memory) ==
  /\ dmCalls[c].op = "frame" /\ dmCalls[c].stage = "cop2"
  /\ IF ok
     THEN LET sel == SelectCopperList(dmCalls[c].pc, dmCalls[c].cop1Addr,
                                      parseIntRadix(memory, 16))
          IN FrameReturn(c, [FrameFile(dmCalls[c].index, dmCalls[c].isCopper) EXCEPT
                               !.addressExpression =
                                  Str(<<"$">> \o NumberToStringRadix(sel.newAddress, 16))],
                         sel.lineNumber)
     ELSE /\ dmCalls' = [dmCalls EXCEPT ![c] = DmIdle]
          /\ dmOut' = Thrown(ErrGdb)
  /\ UNCHANGED <<df, lineCache, dmRet, dmLog>>
  /\ UNCHANGED bpVars

(***************************************************************************)
(* DisassemblyManager.getAddressForFileEditorLine (lines 292-334), with    *)
(* disassembleSegment (257-266), disassembleAddress (268-290) and          *)
(* disassembleNumericalAddress (359-380).                                  *)
(***************************************************************************)
\* The messages of the errors thrown.
MsgInvalidLine(lineNumber) ==
  <<"I", "n", "v", "a", "l", "i", "d", " ", "l", "i", "n", "e", " ", "n", "u", "m", "b", "e", "r", ":", " ", "'">> \o NumberToString(Num(lineNumber)) \o <<"'">>
MsgUnrecognised(path) == <<"U", "n", "r", "e", "c", "o", "g", "n", "i", "s", "e", "d", " ", "f", "i", "l", "e", "n", "a", "m", "e", " ", "f", "o", "r", "m", "a", "t", " ">> \o path
MsgNoSegmentId(filePath) == <<"S", "e", "g", "m", "e", "n", "t", "I", "d", " ", "u", "n", "d", "e", "f", "i", "n", "e", "d", " ", "i", "n", " ", "p", "a", "t", "h", " ">> \o filePath
MsgUnresolved == <<"U", "n", "a", "b", "l", "e", " ", "t", "o", " ", "r", "e", "s", "o", "l", "v", "e", " ", "a", "d", "d", "r", "e", "s", "s", " ", "e", "x", "p", "r", "e", "s", "s", "i", "o", "n", " ", "v", "o", "i", "d", " ", "r", "e", "t", "u", "r", "n", "e", "d">>
MsgNotStarted == <<"D", "e", "b", "u", "g", "g", "e", "r", " ", "n", "o", "t", " ", "s", "t", "a", "r", "t", "e", "d">>
MsgGreater(searchedLN, filePath, length) ==
  <<"S", "e", "a", "r", "c", "h", "e", "d", " ", "l", "i", "n", "e", " ">> \o NumberToString(Num(searchedLN))
    \o <<" ", "g", "r", "e", "a", "t", "e", "r", " ", "t", "h", "a", "n", " ", "f", "i", "l", "e", " ", "\"">> \o filePath \o <<"\"", " ", "l", "e", "n", "g", "t", "h", ":", " ">>
    \o NumberToString(Num(length))
MsgNoInstructions(lineNumber) ==
  <<"S", "e", "a", "r", "c", "h", "e", "d", " ", "l", "i", "n", "e", " ">> \o NumberToString(Num(lineNumber)) \o <<" ", "h", "a", "s", " ", "n", "o", " ", "i", "n", "s", "t", "r", "u", "c", "t", "i", "o", "n", "s">>

\* The call throws.
AddrThrow(c, message) ==
  /\ dmOut' = Thrown(message)
  /\ dmCalls' = [dmCalls EXCEPT ![c] = DmIdle]

\* getAddressForFileEditorLine(filePath, lineNumber) up to its first await
\* (lines 296-318, 274-282), or to the error it throws before.
GetAddressForFileEditorLine(filePath, lineNumber) ==
  /\ DmFree # {}
  /\ LET c == MinOf(DmFree)
         parsed == fromPath(filePath)
         dAsmFile == parsed.file
         call == [DmIdle EXCEPT !.op = "addr", !.path = filePath,
                                !.lineNumber = lineNumber, !.file = dAsmFile,
                                !.isCopper = isCopper(dAsmFile)]
     IN IF ~(lineNumber > 0) THEN AddrThrow(c, MsgInvalidLine(lineNumber))
        ELSE IF ~parsed.ok THEN AddrThrow(c, MsgUnrecognised(filePath))
        ELSE IF isSegment(dAsmFile)
        THEN IF dAsmFile.segmentId.kind # "undefined"
             THEN /\ dmCalls' = [dmCalls EXCEPT ![c] = [call EXCEPT !.stage = "segmem"]]
                  /\ UNCHANGED dmOut
             ELSE AddrThrow(c, MsgNoSegmentId(filePath))
        ELSE IF dAsmFile.addressExpression.def /\ dAsmFile.length.kind # "undefined"
        THEN /\ dmCalls' = [dmCalls EXCEPT ![c] =
                              [call EXCEPT !.stage =
                                 IF isCopper(dAsmFile)
                                    /\ dAsmFile.addressExpression.s \in {<<"1">>, <<"2">>}
                                 THEN "copaddr" ELSE "eval"]]
             /\ UNCHANGED dmOut
        ELSE AddrThrow(c, MsgNoInstructions(lineNumber))
  /\ UNCHANGED <<df, lineCache, dmRet, dmLog>>
  /\ UNCHANGED bpVars

\* Lines 319-330: the address of the line in the instructions.
AddrFinish(c, instructions) ==
  LET searchedLN == dmCalls[c].lineNumber - 1
  IN IF searchedLN < Len(instructions)
     THEN /\ dmOut' = Returned(parseIntRadix(instructions[searchedLN + 1], 16))
          /\ dmCalls' = [dmCalls EXCEPT ![c] = DmIdle]
     ELSE AddrThrow(c, MsgGreater(searchedLN, dmCalls[c].path, Len(instructions)))

\* gdb.getSegmentMemory settles (line 261); the segment's decode starts at
\* its base address (262-264).  Only the loaded segment has memory.
AddrSegMemDone(c, ok) ==
  /\ dmCalls[c].op = "addr" /\ dmCalls[c].stage = "segmem"
  /\ ok => dmCalls[c].file.segmentId = Num(0)
  /\ IF ok
     THEN /\ dmCalls' = [dmCalls EXCEPT ![c].stage = "dis",
                                        ![c].address = toAbsoluteOffset(0, 0)]
          /\ UNCHANGED dmOut
     ELSE AddrThrow(c, ErrGdb)
  /\ UNCHANGED <<df, lineCache, dmRet, dmLog>>
  /\ UNCHANGED bpVars

\* Lines 283-289 and 364-368: the address is resolved; the memory is asked
\* for when the debugger is connected.
AddrResolved(c, searchedAddress) ==
  IF searchedAddress.kind = "undefined" THEN AddrThrow(c, MsgUnresolved)
  ELSE IF ~connected THEN AddrThrow(c, MsgNotStarted)
  ELSE /\ dmCalls' = [dmCalls EXCEPT ![c].stage = "mem", ![c].address = searchedAddress]
       /\ UNCHANGED dmOut

\* getCopperAddress(parseInt(addressExpression)) settles (lines 277-279).
AddrCopAddrDone(c, ok, memory) ==
  /\ dmCalls[c].op = "addr" /\ dmCalls[c].stage = "copaddr"
  /\ IF ok THEN AddrResolved(c, parseIntRadix(memory, 16)) ELSE AddrThrow(c, ErrGdb)
  /\ UNCHANGED <<df, lineCache, dmRet, dmLog>>
  /\ UNCHANGED bpVars

\* program.evaluate(addressExpression) settles (line 281).
AddrEvalDone(c, ok, value) ==
  /\ dmCalls[c].op = "addr" /\ dmCalls[c].stage = "eval"
  /\ IF ok THEN AddrResolved(c, value) ELSE AddrThrow(c, ErrGdb)
  /\ UNCHANGED <<df, lineCache, dmRet, dmLog>>
  /\ UNCHANGED bpVars

\* gdb.getMemory settles (line 368): the copper decoder runs at once
\* (369-374), the CPU decoder is awaited (377).
AddrMemDone(c, ok, decoded, n) ==
  /\ dmCalls[c].op = "addr" /\ dmCalls[c].stage = "mem"
  /\ IF ~ok THEN AddrThrow(c, ErrGdb)
     ELSE IF dmCalls[c].isCopper
     THEN IF decoded THEN AddrFinish(c, CopperInstructions(dmCalls[c].address, n))
          ELSE AddrThrow(c, ErrGdb)
     ELSE /\ dmCalls' = [dmCalls EXCEPT ![c].stage = "dis"]
          /\ UNCHANGED dmOut
  /\ UNCHANGED <<df, lineCache, dmRet, dmLog>>
  /\ UNCHANGED bpVars

\* disassemble(memory, startAddress) settles (lines 264, 377).
AddrDisDone(c, ok, n) ==
  /\ dmCalls[c].op = "addr" /\ dmCalls[c].stage = "dis"
  /\ IF ok THEN AddrFinish(c, Instructions(dmCalls[c].address, n))
     ELSE AddrThrow(c, ErrGdb)
  /\ UNCHANGED <<df, lineCache, dmRet, dmLog>>
  /\ UNCHANGED bpVars

\* new DisassemblyManager(gdb, program): the cache is empty (line 137).  pcs
\* are the addresses the callers ask for.
DmInitWith(pcs) ==
  /\ lineCache = [pc \in pcs |-> NoLine]
  /\ dmCalls = [c \in DmSlots |-> DmIdle]
  /\ dmRet = NoLine
  /\ dmLog = [pc \in pcs |-> [calls |-> 0, fetches |-> 0]]
  /\ dmOut = NoOut

DmInit == DmInitWith(DmPcs)

(***************************************************************************)
(* The manager after construction (lines 29-51), and a manager to which    *)
(* h, the objects the factories made so far, have been handed out.         *)
(***************************************************************************)
Quiet == \A c \in Slots : calls[c].op = "idle"

BpInit(h, conn, prog, act, pend, grps, reg) ==
  /\ connected = conn
  /\ program = prog
  /\ exceptionMask = DEFAULT_EXCEPTION_MASK
  /\ heap = h
  /\ nextBreakpointId = Len(h)
  /\ breakpoints = act
  /\ pendingBreakpoints = pend
  /\ mutexHolder = 0
  /\ breakpointLock = 0
  /\ oldMutexes = <<>>
  /\ lockMutex = 0
  /\ groups = grps
  /\ temporaryBreakpointArrays = reg
  /\ remote = {act[k] : k \in 1..Len(act)}
              \cup UNION {{grps[reg[g]][k] : k \in 1..Len(grps[reg[g]])} : g \in 1..Len(reg)}
  /\ calls = [c \in Slots |-> Idle]
  /\ ret = "none"
  /\ assigned = [k \in 1..Len(h) |-> h[k].id]

InitWith(h, conn, prog, act, pend, grps, reg) ==
  /\ BpInit(h, conn, prog, act, pend, grps, reg)
  /\ df = DfIdle
  /\ DmInit

(***************************************************************************)
(* Spec: a new manager and one caller, who awaits each call before the     *)
(* next.  The caller makes breakpoints with the factories, at most one of  *)
(* each shape setBreakpoint tells apart and in the order of ShapeRank, and *)
(* hands them to the manager.                                              *)
(***************************************************************************)
Init == InitWith(<<>>, FALSE, FALSE, <<>>, <<>>, <<>>, <<>>)

\* The shapes in the order the caller makes them.
ShapeRank(b) ==
  CASE b.breakpointType = "SOURCE" -> IF b.source = SrcFile THEN 1 ELSE 2
    [] b.breakpointType = "INSTRUCTION" -> 3
    [] b.breakpointType = "DATA" -> 4
    [] b.breakpointType = "EXCEPTION" -> 5
    [] OTHER -> 6

\* No object of rank r or of a later rank was made yet.
NotYet(r) == Quiet /\ \A o \in Refs : ShapeRank(heap[o]) < r

Next ==
  \/ Connect
  \/ SetProgram
  \/ NotYet(1) /\ CreateBreakpoint(SrcFile, 1)
  \/ NotYet(2) /\ CreateBreakpoint(SrcDasm, 1)
  \/ NotYet(3) /\ CreateInstructionBreakpoint(4)
  \/ NotYet(4) /\ CreateDataBreakpoint(8, Undef)
  \/ NotYet(5) /\ CreateExceptionBreakpoint
  \/ NotYet(6) /\ CreateTemporaryBreakpoint(4)
  \/ \E o \in Refs : Quiet /\ SetBreakpoint(o)
  \/ \E o \in Refs : Quiet /\ AddPendingBreakpoint(o)
  \/ \E c \in Slots, outcome \in {"found", "none", "throw", "throwValue"} : SetLookupDone(c, outcome)
  \/ \E c \in Slots : SetLocated(c)
  \/ \E c \in Slots, res \in Settlements : SetDasmDone(c, res)
  \/ \E c \in Slots, res \in Settlements : SetInstallDone(c, res)
  \/ Quiet /\ SendAllPendingBreakpoints
  \/ \E c \in Slots : AcquireLock(c)
  \/ \E c \in Slots : FlushSwap(c)
  \/ \E c \in Slots : FlushFinish(c)

Spec == Init /\ [][Next]_vars

(***************************************************************************)
(* SpecFlush: several callers at once.  setBreakpoint, addPendingBreakpoint*)
(* and sendAllPendingBreakpoints are called while earlier calls, flushes   *)
(* included, are still running.                                            *)
(***************************************************************************)
FlushObjects ==
  <<createBreakpoint(0, SrcFile, 1),
    createInstructionBreakpoint(1, 4)>>

InitFlush == InitWith(FlushObjects, FALSE, TRUE, <<>>, <<>>, <<>>, <<>>)

NextFlush ==
  \/ Connect
  \/ \E o \in Refs : SetBreakpoint(o)
  \/ \E o \in Refs : AddPendingBreakpoint(o)
  \/ \E c \in Slots, outcome \in {"found", "none"} : SetLookupDone(c, outcome)
  \/ \E c \in Slots : SetLocated(c)
  \/ \E c \in Slots, res \in {"ok", "throw"} : SetInstallDone(c, res)
  \/ SendAllPendingBreakpoints
  \/ \E c \in Slots : AcquireLock(c)
  \/ \E c \in Slots : FlushSwap(c)
  \/ \E c \in Slots : FlushFinish(c)
  \/ \E c \in Slots : AcquireTimeout(c)

SpecFlush == InitFlush /\ [][NextFlush]_vars

(***************************************************************************)
(* SpecLock: the lock-taking operations called concurrently on a connected *)
(* manager with one active instruction breakpoint, one registered temporary*)
(* group and one pending instruction breakpoint.  A caller waiting for the      *)
(* mutex may run into its timeout.                                         *)
(***************************************************************************)
LockObjects ==
  <<createInstructionBreakpoint(0, 4),
    createTemporaryBreakpoint(1, 4),
    createInstructionBreakpoint(2, 8)>>

InitLock == InitWith(LockObjects, TRUE, TRUE, <<1>>, <<3>>, <<(<<2>>)>>, <<1>>)

\* The calls made by the manager's users that have not returned yet.
Callers == {c \in Slots : calls[c].op \notin {"idle"} /\ calls[c].parent = 0
                          /\ calls[c].pc # "orphan"}
MaxCallers == 2
Few == Cardinality(Callers) < MaxCallers

NextLock ==
  \/ Few /\ SendAllPendingBreakpoints
  \/ \E c \in Slots : AcquireLock(c)
  \/ \E c \in Slots : FlushSwap(c)
  \/ \E c \in Slots, res \in Settlements : SetInstallDone(c, res)
  \/ \E c \in Slots : FlushFinish(c)
  \/ Few /\ ClearBreakpointsType("INSTRUCTION", NoSource)
  \/ \E c \in Slots : ClearBegin(c)
  \/ \E c \in Slots, ok \in BOOLEAN : ClearRemoveDone(c, ok)
  \/ Few /\ RemoveExceptionBreakpoint
  \/ \E c \in Slots : RmExcSend(c)
  \/ \E c \in Slots, ok \in BOOLEAN : RmExcDone(c, ok)
  \/ \E g \in 1..Len(groups) : Few /\ RemoveTemporaryBreakpointArray(g)
  \/ \E c \in Slots : RmTmpSend(c)
  \/ \E c \in Slots, ok \in BOOLEAN : RmTmpRemoveDone(c, 1, ok)
  \/ \E c \in Slots : RmTmpFinish(c)
  \/ \E c \in Slots : AcquireTimeout(c)
  \/ SetMutexTimeout

SpecLock == InitLock /\ [][NextLock]_vars

(***************************************************************************)
(* SpecClear: a connected manager whose active list mixes the kinds and    *)
(* the sources; one caller clears by kind, or by source, again and again.  *)
(***************************************************************************)
SrcNameOnly == [def |-> TRUE, path |-> Undef, name |-> "main.s"]

ClearObjects ==
  <<createBreakpoint(0, SrcFile, 1),
    createInstructionBreakpoint(1, 4),
    createBreakpoint(2, SrcDasm, 1),
    createBreakpoint(3, SrcFile, 2),
    createDataBreakpoint(4, 8, Undef)>>

InitClear == InitWith(ClearObjects, TRUE, TRUE, <<1, 2, 3, 4, 5>>, <<>>, <<>>, <<>>)

\* clearBreakpoints(source), clearDataBreakpoints(), clearInstructionBreakpoints()
\* (lines 296-312).
NextClear ==
  \/ \E source \in {SrcFile, SrcDasm, SrcNameOnly} :
        Quiet /\ ClearBreakpointsType("SOURCE", source)
  \/ Quiet /\ ClearBreakpointsType("DATA", NoSource)
  \/ Quiet /\ ClearBreakpointsType("INSTRUCTION", NoSource)
  \/ \E c \in Slots : AcquireLock(c)
  \/ \E c \in Slots : ClearBegin(c)
  \/ \E c \in Slots, ok \in BOOLEAN : ClearRemoveDone(c, ok)

SpecClear == InitClear /\ [][NextClear]_vars

(***************************************************************************)
(* SpecIds: a new, connected manager; the factories, setExceptionBreakpoint*)
(* and removeExceptionBreakpoint are called in any order, the factories    *)
(* also while an asynchronous call is still running.                       *)
(***************************************************************************)
InitIds == InitWith(<<>>, TRUE, TRUE, <<>>, <<>>, <<>>, <<>>)

NextIds ==
  \/ CreateBreakpoint(SrcFile, 1)
  \/ CreateTemporaryBreakpoint(4)
  \/ CreateInstructionBreakpoint(4)
  \/ \E message \in {Undef, "watch me"} : CreateDataBreakpoint(8, message)
  \/ CreateExceptionBreakpoint
  \/ \E mask \in Masks : SetExceptionMask(mask)
  \/ CreateTemporaryBreakpointArray(<<4, 8>>)
  \/ Quiet /\ SetExceptionBreakpoint
  \/ \E c \in Slots, res \in Settlements : SetInstallDone(c, res)
  \/ Quiet /\ RemoveExceptionBreakpoint
  \/ \E c \in Slots : AcquireLock(c)
  \/ \E c \in Slots : RmExcSend(c)
  \/ \E c \in Slots, ok \in BOOLEAN : RmExcDone(c, ok)

SpecIds == InitIds /\ [][NextIds]_vars

(***************************************************************************)
(* SpecTmp: temporary groups.  Four groups made by                         *)
(* createTemporaryBreakpointArray([4, 8]), ([4]), ([8]) and ([]); one      *)
(* caller registers them, a group more than once too, reports stops at a   *)
(* pc, or removes a group directly.                                        *)
(***************************************************************************)
TmpObjects ==
  <<createTemporaryBreakpoint(0, 4),
    createTemporaryBreakpoint(1, 8),
    createTemporaryBreakpoint(2, 4),
    createTemporaryBreakpoint(3, 8)>>

TmpGroups == <<(<<1, 2>>), (<<3>>), (<<4>>), (<<>>)>>

StopPcs == {4, 8, 12}

InitTmp == InitWith(TmpObjects, TRUE, TRUE, <<>>, <<>>, TmpGroups, <<>>)

NextTmp ==
  \/ \E g \in 1..Len(groups) : Quiet /\ AddTemporaryBreakpointArray(g)
  \/ \E c \in Slots, k \in 1..2, ok \in BOOLEAN : AddTmpInstallDone(c, k, ok)
  \/ \E c \in Slots : AddTmpFinish(c)
  \/ \E pc \in StopPcs : Quiet /\ CheckTemporaryBreakpoints(pc)
  \/ \E g \in 1..Len(groups) : Quiet /\ RemoveTemporaryBreakpointArray(g)
  \/ \E c \in Slots : AcquireLock(c)
  \/ \E c \in Slots : RmTmpSend(c)
  \/ \E c \in Slots, k \in 1..2, ok \in BOOLEAN : RmTmpRemoveDone(c, k, ok)
  \/ \E c \in Slots, k \in 1..2, ok \in BOOLEAN : RmTmpOrphanDone(c, k, ok)
  \/ \E c \in Slots : RmTmpFinish(c)
  \/ \E c \in Slots : CheckFinish(c)
  \/ \E c \in Slots : AcquireTimeout(c)

SpecTmp == InitTmp /\ [][NextTmp]_vars

(***************************************************************************)
(* SpecShape: a connected manager and one object of each shape the         *)
(* factories make; one caller awaits setBreakpoint for one object after    *)
(* the other, while the program is set and the session connects and        *)
(* disconnects.                                                            *)
(***************************************************************************)
ShapeObjects ==
  <<createBreakpoint(0, SrcFile, 1),
    createBreakpoint(1, SrcDasm, 1),
    createInstructionBreakpoint(2, 4),
    createExceptionBreakpoint(3, DEFAULT_EXCEPTION_MASK),
    createTemporaryBreakpoint(4, 4),
    createDataBreakpoint(5, 8, Undef)>>

InitShape == InitWith(ShapeObjects, TRUE, FALSE, <<>>, <<>>, <<>>, <<>>)

NextShape ==
  \/ Connect
  \/ SetProgram
  \/ \E o \in Refs : Quiet /\ SetBreakpoint(o)
  \/ \E c \in Slots, outcome \in {"found", "none", "throw", "throwValue"} : SetLookupDone(c, outcome)
  \/ \E c \in Slots : SetLocated(c)
  \/ \E c \in Slots, res \in Settlements : SetDasmDone(c, res)
  \/ \E c \in Slots, res \in Settlements : SetInstallDone(c, res)

SpecShape == InitShape /\ [][NextShape]_vars

(***************************************************************************)
(* SpecVis: a connected manager, the group made by                         *)
(* createTemporaryBreakpointArray([4, 8]) and an instruction breakpoint at *)
(* address 4.  One caller registers the group, sets breakpoints (the       *)
(* members included), flushes the queue and clears by kind, awaiting each  *)
(* call before the next.                                                   *)
(***************************************************************************)
VisObjects ==
  <<createTemporaryBreakpoint(0, 4),
    createTemporaryBreakpoint(1, 8),
    createInstructionBreakpoint(2, 4)>>

InitVis == InitWith(VisObjects, TRUE, TRUE, <<>>, <<>>, <<(<<1, 2>>)>>, <<>>)

NextVis ==
  \/ \E g \in 1..Len(groups) : Quiet /\ AddTemporaryBreakpointArray(g)
  \/ \E c \in Slots, k \in 1..2, ok \in BOOLEAN : AddTmpInstallDone(c, k, ok)
  \/ \E o \in Refs : Quiet /\ SetBreakpoint(o)
  \/ \E c \in Slots, res \in Settlements : SetInstallDone(c, res)
  \/ Quiet /\ SendAllPendingBreakpoints
  \/ \E c \in Slots : AcquireLock(c)
  \/ \E c \in Slots : FlushSwap(c)
  \/ \E c \in Slots : FlushFinish(c)
  \/ Quiet /\ ClearBreakpointsType("SOURCE", SrcFile)
  \/ Quiet /\ ClearBreakpointsType("DATA", NoSource)
  \/ Quiet /\ ClearBreakpointsType("INSTRUCTION", NoSource)
  \/ \E c \in Slots : ClearBegin(c)
  \/ \E c \in Slots, ok \in BOOLEAN : ClearRemoveDone(c, ok)

SpecVis == InitVis /\ [][NextVis]_vars

(***************************************************************************)
(* SpecPend: a connected manager, a source breakpoint and the group made by*)
(* createTemporaryBreakpointArray([4]).  One caller awaits one operation   *)
(* of the manager after the other.                                         *)
(***************************************************************************)
PendObjects ==
  <<createBreakpoint(0, SrcFile, 1),
    createTemporaryBreakpoint(1, 4)>>

InitPend == InitWith(PendObjects, TRUE, TRUE, <<>>, <<>>, <<(<<2>>)>>, <<>>)

NextPend ==
  \/ \E o \in Refs : Quiet /\ SetBreakpoint(o)
  \/ \E o \in Refs : Quiet /\ AddPendingBreakpoint(o)
  \/ \E c \in Slots, outcome \in {"found", "none"} : SetLookupDone(c, outcome)
  \/ \E c \in Slots : SetLocated(c)
  \/ \E c \in Slots, res \in {"ok", "throw"} : SetInstallDone(c, res)
  \/ Quiet /\ AddLocationToPending
  \/ \E c \in Slots, outcome \in {"found", "none", "throw"} : AddLocLookupDone(c, outcome)
  \/ \E c \in Slots : AddLocNext(c)
  \/ Quiet /\ SendAllPendingBreakpoints
  \/ \E c \in Slots : AcquireLock(c)
  \/ \E c \in Slots : FlushSwap(c)
  \/ \E c \in Slots : FlushFinish(c)
  \/ Quiet /\ ClearBreakpointsType("SOURCE", SrcFile)
  \/ Quiet /\ ClearBreakpointsType("DATA", NoSource)
  \/ Quiet /\ ClearBreakpointsType("INSTRUCTION", NoSource)
  \/ \E c \in Slots : ClearBegin(c)
  \/ \E c \in Slots, ok \in BOOLEAN : ClearRemoveDone(c, ok)
  \/ Quiet /\ SetExceptionBreakpoint
  \/ Quiet /\ RemoveExceptionBreakpoint
  \/ \E c \in Slots : RmExcSend(c)
  \/ \E c \in Slots, ok \in BOOLEAN : RmExcDone(c, ok)
  \/ \E g \in 1..Len(groups) : Quiet /\ AddTemporaryBreakpointArray(g)
  \/ \E c \in Slots, ok \in BOOLEAN : AddTmpInstallDone(c, 1, ok)
  \/ \E pc \in {4} : Quiet /\ CheckTemporaryBreakpoints(pc)
  \/ \E c \in Slots : CheckFinish(c)
  \/ \E g \in 1..Len(groups) : Quiet /\ RemoveTemporaryBreakpointArray(g)
  \/ \E c \in Slots : RmTmpSend(c)
  \/ \E c \in Slots, ok \in BOOLEAN : RmTmpRemoveDone(c, 1, ok)
  \/ \E c \in Slots : RmTmpFinish(c)

SpecPend == InitPend /\ [][NextPend]_vars

(***************************************************************************)
(* SpecLoc: a manager that is not connected, first without a program.  An  *)
(* ordinary source breakpoint and a breakpoint in a disassembly view are   *)
(* queued by setBreakpoint; addLocationToPending runs, also while a flush  *)
(* replaces the queue.                                                     *)
(***************************************************************************)
LocObjects ==
  <<createBreakpoint(0, SrcFile, 1),
    createBreakpoint(1, SrcDasm, 1)>>

InitLoc == InitWith(LocObjects, FALSE, FALSE, <<>>, <<>>, <<>>, <<>>)

NextLoc ==
  \/ SetProgram
  \/ \E o \in Refs : Few /\ SetBreakpoint(o)
  \/ Few /\ AddLocationToPending
  \/ \E c \in Slots, outcome \in {"found", "none", "throw"} : AddLocLookupDone(c, outcome)
  \/ \E c \in Slots : AddLocNext(c)
  \/ Few /\ SendAllPendingBreakpoints
  \/ \E c \in Slots : AcquireLock(c)
  \/ \E c \in Slots : FlushSwap(c)
  \/ \E c \in Slots : FlushFinish(c)

SpecLoc == InitLoc /\ [][NextLoc]_vars

(***************************************************************************)
(* SpecSame: a connected manager with active SOURCE breakpoints whose      *)
(* sources have a path, a path and the name of a disassembly view, or a    *)
(* name only; one caller calls clearBreakpoints with sources that share    *)
(* the path, or only the name, with them.                                  *)
(***************************************************************************)
SrcDasmNameOnly == [def |-> TRUE, path |-> Undef, name |-> "seg_0.dbgasm"]
SrcDasmMoved == [def |-> TRUE, path |-> "/tmp/seg_0.dbgasm", name |-> "seg_0.dbgasm"]
SrcFileMoved == [def |-> TRUE, path |-> "/tmp/main.s", name |-> "main.s"]

SameObjects ==
  <<createBreakpoint(0, SrcFile, 1),
    createBreakpoint(1, SrcDasm, 1),
    createBreakpoint(2, SrcDasmNameOnly, 1),
    createBreakpoint(3, SrcNameOnly, 1),
    createInstructionBreakpoint(4, 4)>>

SameSources == {SrcFile, SrcFileMoved, SrcNameOnly, SrcDasm, SrcDasmMoved, SrcDasmNameOnly}

InitSame == InitWith(SameObjects, TRUE, TRUE, <<1, 2, 3, 4, 5>>, <<>>, <<>>, <<>>)

NextSame ==
  \/ \E source \in SameSources : Quiet /\ ClearBreakpointsType("SOURCE", source)
  \/ \E c \in Slots : AcquireLock(c)
  \/ \E c \in Slots : ClearBegin(c)
  \/ \E c \in Slots, ok \in BOOLEAN : ClearRemoveDone(c, ok)

SpecSame == InitSame /\ [][NextSame]_vars

(***************************************************************************)
(* SpecWait: a connected manager with one active instruction breakpoint,   *)
(* and a source breakpoint and a breakpoint in a disassembly view not set  *)
(* yet.                                                                    *)
(* setBreakpoint, sendAllPendingBreakpoints and clearInstructionBreakpoints*)
(* are called while earlier calls are still running.  The lookups and      *)
(* remote installs of setBreakpoint settle sooner or later, and so does    *)
(* the Promise.all of a flush once its calls have returned; nothing is     *)
(* assumed of the removals a clear waits for under the lock.               *)
(***************************************************************************)
WaitObjects ==
  <<createBreakpoint(0, SrcFile, 1),
    createInstructionBreakpoint(1, 4),
    createBreakpoint(2, SrcDasm, 1)>>

InitWait == InitWith(WaitObjects, TRUE, TRUE, <<2>>, <<>>, <<>>, <<>>)

\* The next step of the setBreakpoint call c: a lookup, in the program or in
\* a disassembly view, or a remote install settles, in every way it can, or
\* the call goes on after its lookup.
SetSettles(c) ==
  \/ \E outcome \in {"found", "none", "throw", "throwValue"} : SetLookupDone(c, outcome)
  \/ SetLocated(c)
  \/ \E res \in Settlements : SetDasmDone(c, res)
  \/ \E res \in Settlements : SetInstallDone(c, res)

NextWait ==
  \/ \E o \in Refs : Few /\ SetBreakpoint(o)
  \/ \E c \in Slots : SetSettles(c)
  \/ Few /\ SendAllPendingBreakpoints
  \/ \E c \in Slots : AcquireLock(c)
  \/ \E c \in Slots : FlushSwap(c)
  \/ \E c \in Slots : FlushFinish(c)
  \/ Few /\ ClearBreakpointsType("INSTRUCTION", NoSource)
  \/ \E c \in Slots : ClearBegin(c)
  \/ \E c \in Slots, ok \in BOOLEAN : ClearRemoveDone(c, ok)
  \/ \E c \in Slots : AcquireTimeout(c)

SpecWait ==
  /\ InitWait /\ [][NextWait]_vars
  /\ \A c \in Slots : WF_vars(SetSettles(c)) /\ WF_vars(FlushFinish(c))

(***************************************************************************)
(* SpecRace: a connected manager with one active instruction breakpoint.   *)
(* Callers set breakpoints that are not set yet and clear by kind while    *)
(* earlier calls are still running.                                        *)
(***************************************************************************)
RaceObjects ==
  <<createInstructionBreakpoint(0, 4),
    createInstructionBreakpoint(1, 8),
    createDataBreakpoint(2, 8, Undef),
    createBreakpoint(3, SrcFile, 1)>>

InitRace == InitWith(RaceObjects, TRUE, TRUE, <<1>>, <<>>, <<>>, <<>>)

\* Breakpoint o is neither set nor being set.
Unset(o) ==
  /\ o \notin remote /\ ~InSeq(breakpoints, o) /\ ~InSeq(pendingBreakpoints, o)
  /\ \A c \in Slots : ~(calls[c].op = "set" /\ calls[c].bp = o)

NextRace ==
  \/ \E o \in Refs : Few /\ Unset(o) /\ SetBreakpoint(o)
  \/ \E c \in Slots, outcome \in {"found", "none"} : SetLookupDone(c, outcome)
  \/ \E c \in Slots : SetLocated(c)
  \/ \E c \in Slots, res \in Settlements : SetInstallDone(c, res)
  \/ Few /\ ClearBreakpointsType("SOURCE", SrcFile)
  \/ Few /\ ClearBreakpointsType("DATA", NoSource)
  \/ Few /\ ClearBreakpointsType("INSTRUCTION", NoSource)
  \/ \E c \in Slots : AcquireLock(c)
  \/ \E c \in Slots : ClearBegin(c)
  \/ \E c \in Slots, ok \in BOOLEAN : ClearRemoveDone(c, ok)

SpecRace == InitRace /\ [][NextRace]_vars

(***************************************************************************)
(* SpecTwice: the program has stopped for the first time with a source     *)
(* breakpoint and an instruction breakpoint queued, and the first-stop     *)
(* signal fires again and again: sendAllPendingBreakpoints is called while *)
(* earlier flushes are waiting for the lock or for their installs.         *)
(***************************************************************************)
TwiceObjects ==
  <<createBreakpoint(0, SrcFile, 1),
    createInstructionBreakpoint(1, 4)>>

InitTwice == InitWith(TwiceObjects, TRUE, TRUE, <<>>, <<1, 2>>, <<>>, <<>>)

NextTwice ==
  \/ SendAllPendingBreakpoints
  \/ \E c \in Slots : AcquireLock(c)
  \/ \E c \in Slots : FlushSwap(c)
  \/ \E c \in Slots, outcome \in {"found", "none", "throw", "throwValue"} : SetLookupDone(c, outcome)
  \/ \E c \in Slots : SetLocated(c)
  \/ \E c \in Slots, res \in Settlements : SetInstallDone(c, res)
  \/ \E c \in Slots : FlushFinish(c)
  \/ \E c \in Slots : AcquireTimeout(c)

SpecTwice == InitTwice /\ [][NextTwice]_vars

(***************************************************************************)
(* SpecDF: a new DisassembledFile is given its fields with the setters, in *)
(* any order and at any time, printed with toString, and the string is     *)
(* parsed with fromPath; other strings are parsed as they are.             *)
(***************************************************************************)
MaxNum == 11

Prefixes == {<<>>, <<"d", "/">>, <<"/">>}
Expressions == {<<"$", "4", "0">>, <<"p", "c">>, <<"m", "y", "_", "l">>}
Numbers == {0, MaxNum}
FrameIndexes == {0, 2}

RawPaths ==
  {<<"m", "a", "i", "n", ".", "s">>,
   <<"s", "e", "g", "_", "3">>,
   <<"s", "e", "g", "_", ".", "d", "b", "g", "a", "s", "m">>,
   <<"c", "o", "p", "p", "e", "r", "_", "4", ".", "d", "b", "g", "a", "s", "m">>,
   <<"s", "e", "g", "_", "3", "x", "d", "b", "g", "a", "s", "m">>,
   <<"2", "_", "_", "p", "c", "_", "8", ".", "d", "b", "g", "a", "s", "m">>}

InitDF ==
  /\ BpInit(<<>>, FALSE, FALSE, <<>>, <<>>, <<>>, <<>>)
  /\ DmInit
  /\ df \in {[DfIdle EXCEPT !.stage = "file"]}
            \cup {[DfIdle EXCEPT !.stage = "raw", !.string = s] : s \in RawPaths}

NextDF ==
  \/ \E path \in Prefixes : setPath(path)
  \/ \E segmentId \in Numbers : setSegmentId(segmentId)
  \/ \E stackFrameIndex \in FrameIndexes : setStackFrameIndex(stackFrameIndex)
  \/ \E addressExpression \in Expressions : setAddressExpression(addressExpression)
  \/ \E length \in Numbers : setLength(length)
  \/ \E copper \in BOOLEAN : setCopper(copper)
  \/ DfToString
  \/ DfFromPath

SpecDF == InitDF /\ [][NextDF]_vars

(***************************************************************************)
(* SpecDM: one caller awaits disassembleLine for an address and a thread,  *)
(* again and again; the memory fetch and the decoders succeed or fail.     *)
(***************************************************************************)
InitDM == InitWith(<<>>, FALSE, FALSE, <<>>, <<>>, <<>>, <<>>)

NextDM ==
  \/ \E pc \in DmPcs, thread \in Threads : DmQuiet /\ DisassembleLine(pc, thread)
  \/ \E c \in DmSlots, ok \in BOOLEAN, d \in Decoded : DmMemoryDone(c, ok, d)
  \/ \E c \in DmSlots, d \in Decoded : DmDisassembleDone(c, d)

SpecDM == InitDM /\ [][NextDM]_vars

(***************************************************************************)
(* SpecURI: a new DisassembledFile is given its fields with the setters,   *)
(* with and without '#' in the directory prefix and the address            *)
(* expression, and is asked for its URI, at any time.                      *)
(***************************************************************************)
HashPrefixes == {<<>>, <<"d", "/">>, <<"#", "/">>, <<"#", "#", "/">>}
HashExpressions == {<<"$", "4", "0">>, <<"#", "1">>, <<"#", "a", "#">>, <<"a", "#", "b", "#", "c">>}

InitURI ==
  /\ BpInit(<<>>, FALSE, FALSE, <<>>, <<>>, <<>>, <<>>)
  /\ DmInit
  /\ df = [DfIdle EXCEPT !.stage = "file"]

NextURI ==
  \/ \E path \in HashPrefixes : setPath(path)
  \/ \E segmentId \in {0, 3} : setSegmentId(segmentId)
  \/ setStackFrameIndex(0)
  \/ \E addressExpression \in HashExpressions : setAddressExpression(addressExpression)
  \/ setLength(8)
  \/ \E copper \in BOOLEAN : setCopper(copper)
  \/ DfToURI

SpecURI == InitURI /\ [][NextURI]_vars

(***************************************************************************)
(* SpecFrame: one caller awaits getStackFrame for an address and a thread, *)
(* MaxFrames times.  Addresses 66 and 67 lie in the loaded segment, 4112   *)
(* (0x1010) and 4092 (0xffc) outside it.  The memory at the copper list    *)
(* pointers reads as one of CopMem; fetches and decoders succeed or fail.  *)
(***************************************************************************)
MaxFrames == 2

FramePcs == {66, 67, 4092, 4112}

\* What gdb.getMemory returns for a copper list pointer: 0x1000, 0x2000,
\* 0x1014, 0x1018, 0x1008, 0, 0xFFC in upper case, and a string without digits.
CopMem == {<<"0", "0", "0", "0", "1", "0", "0", "0">>, <<"0", "0", "0", "0", "2", "0", "0", "0">>, <<"0", "0", "0", "0", "1", "0", "1", "4">>, <<"0", "0", "0", "0", "1", "0", "1", "8">>,
           <<"0", "0", "0", "0", "1", "0", "0", "8">>, <<"0", "0", "0", "0", "0", "0", "0", "0">>,
           <<"0", "0", "0", "0", "0", "F", "F", "C">>, <<>>}

FramesStarted == dmLog[66].calls + dmLog[67].calls + dmLog[4092].calls + dmLog[4112].calls

InitFrame ==
  /\ BpInit(<<>>, FALSE, FALSE, <<>>, <<>>, <<>>, <<>>)
  /\ df = DfIdle
  /\ DmInitWith(FramePcs)

NextFrame ==
  \/ \E index \in 0..1, pc \in FramePcs, thread \in Threads :
       DmQuiet /\ FramesStarted < MaxFrames /\ GetStackFrame(index, pc, thread)
  \/ \E c \in DmSlots, ok \in BOOLEAN, d \in Decoded : DmMemoryDone(c, ok, d)
  \/ \E c \in DmSlots, d \in Decoded : DmDisassembleDone(c, d)
  \/ \E c \in DmSlots : FrameLabelled(c)
  \/ \E c \in DmSlots, ok \in BOOLEAN : FrameSegMemDone(c, ok)
  \/ \E c \in DmSlots, ok \in BOOLEAN, n \in 0..MaxInstr : FrameSegDisDone(c, ok, n)
  \/ \E c \in DmSlots, ok \in BOOLEAN, memory \in CopMem : FrameCop1Done(c, ok, memory)
  \/ \E c \in DmSlots, ok \in BOOLEAN, memory \in CopMem : FrameCop2Done(c, ok, memory)

SpecFrame == InitFrame /\ [][NextFrame]_vars

(***************************************************************************)
(* SpecAddr: one caller awaits getAddressForFileEditorLine for a path and  *)
(* a line number, again and again, while the debugger connects and         *)
(* disconnects; fetches, the evaluator and the decoders succeed or fail.   *)
(***************************************************************************)
AddrPaths == {<<"s", "e", "g", "_", "0", ".", "d", "b", "g", "a", "s", "m">>, <<"s", "e", "g", "_", "3", ".", "d", "b", "g", "a", "s", "m">>, <<"c", "o", "p", "p", "e", "r", "_", "1", "_", "_", "8", ".", "d", "b", "g", "a", "s", "m">>,
              <<"c", "o", "p", "p", "e", "r", "_", "$", "4", "0", "_", "_", "8", ".", "d", "b", "g", "a", "s", "m">>, <<"0", "_", "_", "$", "4", "0", "_", "_", "8", ".", "d", "b", "g", "a", "s", "m">>, <<"m", "a", "i", "n", ".", "s">>}
LineNumbers == (-1)..(MaxInstr + 1)

\* What program.evaluate returns: an address, or undefined.
Evaluated == {Num(64), NoNumber}

InitAddr == InitWith(<<>>, FALSE, FALSE, <<>>, <<>>, <<>>, <<>>)

NextAddr ==
  \/ Connect
  \/ \E filePath \in AddrPaths, lineNumber \in LineNumbers :
       DmQuiet /\ GetAddressForFileEditorLine(filePath, lineNumber)
  \/ \E c \in DmSlots, ok \in BOOLEAN : AddrSegMemDone(c, ok)
  \/ \E c \in DmSlots, ok \in BOOLEAN, memory \in CopMem : AddrCopAddrDone(c, ok, memory)
  \/ \E c \in DmSlots, ok \in BOOLEAN, value \in Evaluated : AddrEvalDone(c, ok, value)
  \/ \E c \in DmSlots, ok \in BOOLEAN, decoded \in BOOLEAN, n \in 0..MaxInstr :
       AddrMemDone(c, ok, decoded, n)
  \/ \E c \in DmSlots, ok \in BOOLEAN, n \in 0..MaxInstr : AddrDisDone(c, ok, n)

SpecAddr == InitAddr /\ [][NextAddr]_vars

(***************************************************************************)
(* SpecLines: callers call disassembleLine without awaiting one another.   *)
(***************************************************************************)
NextLines ==
  \/ \E pc \in DmPcs, thread \in Threads : DisassembleLine(pc, thread)
  \/ \E c \in DmSlots, ok \in BOOLEAN, d \in Decoded : DmMemoryDone(c, ok, d)
  \/ \E c \in DmSlots, d \in Decoded : DmDisassembleDone(c, d)

SpecLines == InitDM /\ [][NextLines]_vars

(***************************************************************************)
(* C1.  setBreakpoint never raises past its boundary.  Whenever a          *)
(* setBreakpoint call settles, it settles with a boolean.  It returns true *)
(* exactly when the remote install succeeded, and then the pending queue   *)
(* is left alone.  In every other case (no program, location not resolved, *)
(* a collaborator threw, incomplete breakpoint) it returns false and the   *)
(* breakpoint is appended to the pending queue exactly once, unverified    *)
(* and carrying the message of the error that stopped it.                  *)
(***************************************************************************)
Queued(o) ==
  /\ ret' = "false"
  /\ pendingBreakpoints' = Append(pendingBreakpoints, o)
  /\ ~heap'[o].verified

C1_SetBreakpointNeverRaises ==
  [][/\ \A c \in Slots :
          (calls[c].op = "set" /\ calls'[c].op = "idle") =>
             IF SetInstallDone(c, "ok")
             THEN ret' = "true" /\ pendingBreakpoints' = pendingBreakpoints
             ELSE /\ Queued(calls[c].bp)
                  /\ heap'[calls[c].bp].message \in
                       CASE calls[c].pc = "lookup" -> {ErrNotResolved, ErrLookup}
                         [] calls[c].pc = "dasm" -> {ErrLookup}
                         [] OTHER -> {ErrRemote}
     /\ \A o \in Refs :
          (connected /\ SetBreakpoint(o) /\ calls' = calls) =>
             /\ Queued(o)
             /\ heap'[o].message \in {ErrNoProgram, ErrIncomplete}
             /\ heap'[o].message = ErrIncomplete <=> ~heap[o].source.def]_vars

\* A breakpoint whose install the target refused waits in the pending queue.
C1_Witness ==
  /\ ret = "false"
  /\ \E k \in 1..Len(pendingBreakpoints) :
        /\ heap[pendingBreakpoints[k]].message = ErrRemote
        /\ ~heap[pendingBreakpoints[k]].verified

(***************************************************************************)
(* C2.  While the remote session is not connected, setBreakpoint(bp), for  *)
(* a breakpoint of any kind, appends exactly one unverified entry bp to    *)
(* the pending queue and returns false; no remote install is sent and the  *)
(* active list stays as it is.  The same holds for the calls a flush makes.*)
(***************************************************************************)
C2_DisconnectedQueues ==
  [][/\ \A o \in Refs :
          (~connected /\ SetBreakpoint(o)) =>
             /\ Queued(o)
             /\ calls' = calls
             /\ breakpoints' = breakpoints
             /\ remote' = remote
     /\ \A c \in Slots :
          (~connected /\ FlushSwap(c)) =>
             /\ pendingBreakpoints' = pendingBreakpoints
             /\ Children(calls', c) = {}
             /\ \A k \in 1..Len(pendingBreakpoints) : ~heap'[pendingBreakpoints[k]].verified
             /\ breakpoints' = breakpoints
             /\ remote' = remote]_vars

\* Disconnected, an exception breakpoint has just been queued.
C2_Witness ==
  /\ ~connected
  /\ ret = "false"
  /\ Quiet
  /\ Len(pendingBreakpoints) > 0
  /\ heap[pendingBreakpoints[Len(pendingBreakpoints)]].breakpointType = "EXCEPTION"
  /\ breakpoints = <<>>

(***************************************************************************)
(* C3.  A flush passes each entry it captured to setBreakpoint exactly     *)
(* once: when it has the lock it captures the whole queue, makes one       *)
(* setBreakpoint call per captured entry, and each of those calls is then  *)
(* in flight or has already put its entry back.  No other step takes an    *)
(* entry out of the pending queue, so a breakpoint another caller queues   *)
(* while the flush waits for the lock or dispatches is never lost and      *)
(* never sent twice: it stays queued until a flush captures it.            *)
(***************************************************************************)
CountSeq(seq, o) == Cardinality({k \in 1..Len(seq) : seq[k] = o})
InFlightFor(cs, c, o) ==
  Cardinality({k \in Slots : cs[k].op = "set" /\ cs[k].parent = c /\ cs[k].bp = o})
IsPrefix(p, q) == Len(p) <= Len(q) /\ \A k \in 1..Len(p) : p[k] = q[k]

C3_FlushDispatchesOnce ==
  [][/\ \A c \in Slots :
          FlushSwap(c) =>
             /\ calls'[c].arr = pendingBreakpoints
             /\ calls'[c].i = Len(pendingBreakpoints)
             /\ \A o \in Refs :
                   /\ InFlightFor(calls', c, o) + CountSeq(pendingBreakpoints', o)
                        = CountSeq(pendingBreakpoints, o)
                   /\ \A d \in Slots \ {c} : InFlightFor(calls', d, o) = InFlightFor(calls, d, o)
     /\ (~ \E c \in Slots : FlushSwap(c)) =>
          /\ IsPrefix(pendingBreakpoints, pendingBreakpoints')
          /\ \A c \in Slots, o \in Refs :
                InFlightFor(calls', c, o) <= InFlightFor(calls, c, o)]_vars

\* A flush is dispatching, and the queue holds a breakpoint it did not capture.
C3_Witness ==
  \E c \in Slots :
    /\ calls[c].op = "flush" /\ calls[c].pc = "wait"
    /\ Children(calls, c) # {}
    /\ \E k \in 1..Len(pendingBreakpoints) : ~InSeq(calls[c].arr, pendingBreakpoints[k])

(***************************************************************************)
(* C4.  Bulk operations are serialized: at any time at most one of the     *)
(* lock-taking operations (clear by type, removeExceptionBreakpoint,       *)
(* removeTemporaryBreakpointArray, sendAllPendingBreakpoints) is between   *)
(* its lock acquisition and its lock release, also when some caller's      *)
(* acquisition times out.                                                  *)
(***************************************************************************)
\* Call c has acquired the lock and has not yet reached its releaseLock.
InSection(cs, c) ==
  \/ cs[c].op = "flush" /\ cs[c].pc \in {"locked", "wait"}
  \/ cs[c].op \in {"clear", "rmExc", "rmTmp"} /\ cs[c].pc \in {"locked", "rm"}

C4_BulkOperationsSerialized ==
  Cardinality({c \in Slots : InSection(calls, c)}) <= 1

(***************************************************************************)
(* C7.  Lock release on every exit path: when a lock-taking operation that *)
(* has acquired the mutex finishes, by returning or by throwing because a  *)
(* remote call failed, the manager's mutex is free after that step unless  *)
(* another lock-taking operation is still between its acquisition and its  *)
(* release, so that a later capture succeeds.                              *)
(***************************************************************************)
C7_LockReleasedOnExit ==
  [][\A c \in Slots :
       (InSection(calls, c) /\ ~InSection(calls', c)) =>
          (mutexHolder' = 0 \/ \E d \in Slots : InSection(calls', d))]_vars

\* A removal has just failed inside a lock-taking call, and the mutex is free.
C7_Witness ==
  /\ ret = "throw"
  /\ mutexHolder = 0
  /\ \A c \in Slots : calls[c].op = "idle"

(***************************************************************************)
(* C5.  clearBreakpointsType(type, source) on a mixed active list: a       *)
(* remote removal is awaited only for entries that match the type and the  *)
(* source; when the call finishes the active list is the old list without  *)
(* the matching entries whose removal succeeded, in the old order;         *)
(* non-matching entries are still installed; and the call throws exactly   *)
(* when a matching entry is left, that is when some removal failed.        *)
(***************************************************************************)
C5_ClearPartition ==
  [][\A c \in Slots :
       /\ (calls'[c].op = "clear" /\ calls'[c].pc = "rm") =>
            Matches(heap[ClearArray(c)'[calls'[c].i]], calls'[c].typ, calls'[c].src)
       /\ (calls[c].op = "clear" /\ calls'[c].op = "idle") =>
            LET M(o) == Matches(heap[o], calls[c].typ, calls[c].src)
                Kept(o) == ~M(o) \/ o \in remote'
            IN /\ breakpoints' = SelectSeq(breakpoints, Kept)
               /\ \A k \in 1..Len(breakpoints) :
                    /\ ~M(breakpoints[k]) => breakpoints[k] \in remote'
                    /\ breakpoints[k] \notin remote' => ~InSeq(breakpoints', breakpoints[k])
               /\ ret' \in {"throw", "void"}
               /\ ret' = "throw" <=>
                    \E k \in 1..Len(breakpoints) :
                       M(breakpoints[k]) /\ breakpoints[k] \in remote']_vars

\* A clear of the source file's breakpoints has thrown: the removal of the first
\* succeeded, the removal of the second failed, the other kinds are untouched.
C5_Witness ==
  /\ Quiet
  /\ ret = "throw"
  /\ breakpoints = <<2, 3, 4, 5>>
  /\ remote = {2, 3, 4, 5}

(***************************************************************************)
(* C6.  Ids are unique and strictly increasing: in the order in which the  *)
(* manager has assigned them, by any factory and by setExceptionBreakpoint *)
(* and removeExceptionBreakpoint, every id is greater than all ids assigned*)
(* before it, and the counter is above all of them; so no two breakpoint   *)
(* objects share an id.                                                    *)
(***************************************************************************)
C6_IdsStrictlyIncreasing ==
  /\ \A i, j \in 1..Len(assigned) : i < j => assigned[i] < assigned[j]
  /\ \A i \in 1..Len(assigned) : assigned[i] < nextBreakpointId
  /\ \A o, q \in Refs : o # q => heap[o].id # heap[q].id
  /\ \A o \in Refs : InSeq(assigned, heap[o].id)

\* Ids went to a temporary group, to an exception breakpoint that was set, and
\* to one made by removeExceptionBreakpoint, which is in no list.
C6_Witness ==
  /\ Len(groups) > 0
  /\ \E o \in Refs : heap[o].breakpointType = "EXCEPTION" /\ o \in remote
  /\ Len(assigned) > Len(heap)
  /\ Quiet

(***************************************************************************)
(* C8.  checkTemporaryBreakpoints(pc) picks exactly the registered groups  *)
(* with a member whose offset is pc.  When the call returns, each of them  *)
(* is out of the registry and none of its members is installed on the      *)
(* target.  While the call runs, a group it did not pick keeps its place   *)
(* in the registry and its members on the target: every removal the call   *)
(* starts is for a group it picked.                                        *)
(***************************************************************************)
Members(g) == {groups[g][k] : k \in 1..Len(groups[g])}

C8_CheckRemovesGroupsAtPc ==
  [][/\ \A pc \in StopPcs :
          CheckTemporaryBreakpoints(pc) =>
            \E c \in Slots :
              /\ calls[c].op = "idle" /\ calls'[c].op = "check"
              /\ \A g \in 1..Len(groups) :
                    InSeq(calls'[c].arr, g) <=>
                      /\ InSeq(temporaryBreakpointArrays, g)
                      /\ \E o \in Members(g) : heap[o].offset = pc
     /\ \A c \in Slots :
          calls[c].op = "check" =>
            /\ \A d \in Slots : calls'[d].parent = c => InSeq(calls[c].arr, calls'[d].grp)
            /\ \A g \in 1..Len(groups) :
                  ~InSeq(calls[c].arr, g) =>
                    /\ InSeq(temporaryBreakpointArrays', g) <=> InSeq(temporaryBreakpointArrays, g)
                    /\ Members(g) \cap remote' = Members(g) \cap remote
            /\ CheckFinish(c) =>
                  \A g \in 1..Len(groups) :
                    InSeq(calls[c].arr, g) =>
                      /\ ~InSeq(temporaryBreakpointArrays', g)
                      /\ Members(g) \cap remote' = {}]_vars

\* A stop at pc 4 with all three groups registered and installed: the call
\* picked groups 1 and 2, both removals have returned and the call is about to
\* return; group 3 is registered and installed as before.
C8_Witness ==
  \E c \in Slots :
    /\ calls[c].op = "check" /\ calls[c].i = 4
    /\ Len(calls[c].arr) = 2
    /\ Children(calls, c) = {}
    /\ temporaryBreakpointArrays = <<3>>
    /\ remote = {4}

(***************************************************************************)
(* C9.  DisassembledFile round-trips: for a file of one of the three       *)
(* shapes, with or without a directory prefix, fromPath(toString(file))    *)
(* succeeds and returns a file of the same shape with the same segment id, *)
(* stack-frame index, address expression and length, and its toString is   *)
(* the string parsed; and fromPath raises the unrecognised-filename error  *)
(* for a string that matches none of the three patterns.                   *)
(***************************************************************************)
\* f is an identity of one of the three shapes: a segment view, a
\* coprocessor window or a generic window, with the fields of its shape set
\* and the others as a new file has them.
IsIdentity(f) ==
  \/ /\ f.segmentId.kind = "number" /\ ~f.copper
     /\ f.stackFrameIndex = NoNumber /\ f.addressExpression = NoString /\ f.length = NoNumber
  \/ /\ f.copper /\ f.addressExpression.def /\ f.length.kind = "number"
     /\ f.segmentId = NoNumber /\ f.stackFrameIndex = NoNumber
  \/ /\ ~f.copper /\ f.stackFrameIndex.kind = "number"
     /\ f.addressExpression.def /\ f.length.kind = "number"
     /\ f.segmentId = NoNumber

C9_RoundTrip ==
  [][DfFromPath =>
       /\ (IsIdentity(df.file) /\ df.string = toString(df.file)) =>
             /\ df'.parsed.ok
             /\ isSegment(df'.parsed.file) = isSegment(df.file)
             /\ isCopper(df'.parsed.file) = isCopper(df.file)
             /\ df'.parsed.file.segmentId = df.file.segmentId
             /\ df'.parsed.file.stackFrameIndex = df.file.stackFrameIndex
             /\ df'.parsed.file.addressExpression = df.file.addressExpression
             /\ df'.parsed.file.length = df.file.length
             /\ toString(df'.parsed.file) = df.string
       /\ (SegMatches(df.string) \cup CopperMatches(df.string) \cup AddressMatches(df.string) = {})
             => ~df'.parsed.ok]_vars

(***************************************************************************)
(* C10.  disassembleLine caches a successful decode and never a failed     *)
(* one.  A call for an address that has a cache entry returns that entry   *)
(* and calls gdb.getMemory not at all; a call for an address without one   *)
(* calls gdb.getMemory once.  A call whose fetch and decode succeeded      *)
(* leaves the line it returns in the cache, and entries stay as they are.  *)
(* A call whose fetch or decode failed returns the address-only line       *)
(* without raising and leaves the address without a cache entry, so the    *)
(* next call for it fetches again.                                         *)
(***************************************************************************)
\* Call c settles in this step because its fetch or its decoder failed.
DmFails(c) ==
  \/ \E d \in Decoded : DmMemoryDone(c, FALSE, d)
  \/ \E d \in Decoded : ~d.ok /\ dmCalls[c].isCopper /\ DmMemoryDone(c, TRUE, d)
  \/ \E d \in Decoded : ~d.ok /\ DmDisassembleDone(c, d)

C10_CacheOnlySuccess ==
  [][/\ \A pc \in DmPcs, thread \in Threads :
          DisassembleLine(pc, thread) =>
            /\ lineCache' = lineCache
            /\ IF lineCache[pc] # NoLine
               THEN /\ dmRet' = lineCache[pc]
                    /\ dmLog'[pc].fetches = dmLog[pc].fetches
                    /\ dmCalls' = dmCalls
               ELSE /\ dmLog'[pc].fetches = dmLog[pc].fetches + 1
                    /\ \E c \in DmSlots : dmCalls'[c].stage = "mem" /\ dmCalls'[c].pc = pc
     /\ \A pc \in DmPcs : lineCache[pc] # NoLine => lineCache'[pc] = lineCache[pc]
     /\ \A c \in DmSlots :
          (dmCalls[c].op = "line" /\ dmCalls'[c].op = "idle") =>
            /\ dmLog' = dmLog
            /\ IF DmFails(c)
               THEN /\ lineCache'[dmCalls[c].pc] = NoLine
                    /\ dmRet' = [text |-> formatAddress(dmCalls[c].pc) \o <<":", " ">>,
                                 isCopper |-> dmCalls[c].thread = "copper"]
               ELSE /\ lineCache'[dmCalls[c].pc] = dmRet'
                    /\ dmRet' # NoLine
                    /\ dmRet'.isCopper = (dmCalls[c].thread = "copper")]_vars

\* Three calls for address 26: the first failed and fetched, the second fetched
\* again, decoded and cached "$1a: nop", the third returned it without a fetch.
C10_Witness ==
  /\ DmQuiet
  /\ dmLog[26] = [calls |-> 3, fetches |-> 2]
  /\ lineCache[26] = [text |-> <<"$", "1", "a", ":", " ", "n", "o", "p">>, isCopper |-> FALSE]
  /\ dmRet = lineCache[26]
  /\ dmLog[4].calls = 0

(***************************************************************************)
(* C11.  Copper line selection in getStackFrame.  For a copper frame       *)
(* outside any segment whose pc lies at or after list 1's pointer, with    *)
(* list 2's pointer absent or beyond pc, the frame's line is               *)
(* floor((pc - cop1Addr + 4) / 4) and the address expression of the view   *)
(* is list 1's pointer.                                                    *)
(***************************************************************************)
\* The view of a copper frame at the list pointer copAddr.
CopperView(index, copAddr) ==
  [FrameFile(index, TRUE) EXCEPT
     !.addressExpression = Str(<<"$">> \o NatToString(copAddr, 16))]

C11_CopperListOneLine ==
  [][\A c \in DmSlots, memory \in CopMem :
       LET pc == dmCalls[c].pc
           cop1Addr == dmCalls[c].cop1Addr
           cop2Addr == parseIntRadix(memory, 16)
       IN (/\ FrameCop2Done(c, TRUE, memory)
           /\ toRelativeOffset(pc)[1] < 0
           /\ Truthy(cop1Addr) /\ pc >= cop1Addr.v
           /\ ~Truthy(cop2Addr) \/ cop2Addr.v > pc)
          => /\ dmOut'.kind = "frame"
             /\ dmOut'.frame.line = (pc - cop1Addr.v + 4) \div 4
             /\ dmOut'.frame.source.def
             /\ dmOut'.frame.source.name =
                  toString(CopperView(dmCalls[c].index, cop1Addr.v))]_vars

(***************************************************************************)
(* C12.  getStackFrame for a CPU address inside the loaded segment returns *)
(* a frame, and the frame's line is the 1-based index of the instruction   *)
(* at the offset in the segment's instruction list, or -1 when no          *)
(* instruction is at the offset or the segment's decode fails.             *)
(***************************************************************************)
\* The 1-based index of the instruction at offset among n instructions of
\* two bytes each, -1 when there is none.
LineAtOffset(offset, n) ==
  IF offset % 2 = 0 /\ offset \div 2 < n THEN offset \div 2 + 1 ELSE -1

C12_SegmentFrameLine ==
  [][\A c \in DmSlots :
       /\ FrameSegMemDone(c, FALSE) =>
            dmOut'.kind = "frame" /\ dmOut'.frame.line = -1
       /\ \A ok \in BOOLEAN, n \in 0..MaxInstr :
            FrameSegDisDone(c, ok, n) =>
              /\ dmOut'.kind = "frame"
              /\ dmOut'.frame.line =
                   IF ok THEN LineAtOffset(toRelativeOffset(dmCalls[c].pc)[2], n) ELSE -1]_vars

(***************************************************************************)
(* C13.  getAddressForFileEditorLine(path, lineNumber).  With lineNumber   *)
(* above the number of instructions decoded it fails, and the error names  *)
(* the lineNumber asked for and the number of instructions; with           *)
(* 1 <= lineNumber <= count it returns the address of the lineNumber-th    *)
(* instruction; with lineNumber <= 0 it fails and fetches no memory.       *)
(***************************************************************************)
\* Call c gets its n instructions in this step; they are instructions.
Decodes(c, n, instructions) ==
  \/ /\ dmCalls[c].op = "addr" /\ dmCalls[c].stage = "dis"
     /\ AddrDisDone(c, TRUE, n)
     /\ instructions = Instructions(dmCalls[c].address, n)
  \/ /\ dmCalls[c].op = "addr" /\ dmCalls[c].stage = "mem" /\ dmCalls[c].isCopper
     /\ AddrMemDone(c, TRUE, TRUE, n)
     /\ instructions = CopperInstructions(dmCalls[c].address, n)

C13_LineOutOfRangeReported ==
  [][/\ \A c \in DmSlots, n \in 0..MaxInstr :
          \A instructions \in {Instructions(dmCalls[c].address, n),
                               CopperInstructions(dmCalls[c].address, n)} :
            Decodes(c, n, instructions) =>
              IF dmCalls[c].lineNumber > n
              THEN dmOut' = Thrown(MsgGreater(dmCalls[c].lineNumber, dmCalls[c].path, n))
              ELSE dmOut' = Returned(parseIntRadix(instructions[dmCalls[c].lineNumber], 16))
     /\ \A filePath \in AddrPaths, lineNumber \in LineNumbers :
          (lineNumber <= 0 /\ GetAddressForFileEditorLine(filePath, lineNumber)) =>
             /\ dmOut'.kind = "error"
             /\ dmCalls' = dmCalls]_vars

(***************************************************************************)
(* C14.  toURI.  The URI a DisassembledFile of one of the three shapes     *)
(* returns is "disassembly:" followed by its toString() with every '#'     *)
(* replaced by "%23"; it holds no '#'.                                     *)
(***************************************************************************)
RECURSIVE ReplaceAll(_, _, _)
ReplaceAll(s, ch, r) ==
  IF s = <<>> THEN <<>>
  ELSE (IF Head(s) = ch THEN r ELSE <<Head(s)>>) \o ReplaceAll(Tail(s), ch, r)

C14_URIEncodesEveryHash ==
  [][(DfToURI /\ IsIdentity(df.file)) =>
       /\ df'.string = <<"d", "i", "s", "a", "s", "s", "e", "m", "b", "l", "y", ":">> \o ReplaceAll(toString(df.file), "#", <<"%", "2", "3">>)
       /\ \A k \in 1..Len(df'.string) : df'.string[k] # "#"]_vars

(***************************************************************************)
(* C15.  The members of a temporary group are not visible to the clears by *)
(* kind.  No breakpoint of a group made by createTemporaryBreakpointArray  *)
(* is ever in the active list, and no step of clearBreakpoints,            *)
(* clearDataBreakpoints or clearInstructionBreakpoints removes a member    *)
(* from the target or changes the registry of groups.                      *)
(***************************************************************************)
GroupMembers == UNION {Members(g) : g \in 1..Len(groups)}

\* This step is a step of a clear by kind.
ClearStep ==
  \/ \E type \in Kinds, source \in {NoSource, SrcFile} : ClearBreakpointsType(type, source)
  \/ \E c \in Slots : ClearBegin(c)
  \/ \E c \in Slots, ok \in BOOLEAN : ClearRemoveDone(c, ok)

C15_MembersHiddenFromClears ==
  [][/\ \A o \in GroupMembers : ~InSeq(breakpoints, o) /\ ~InSeq(breakpoints', o)
     /\ ClearStep =>
          /\ temporaryBreakpointArrays' = temporaryBreakpointArrays
          /\ remote' \cap GroupMembers = remote \cap GroupMembers
          /\ \A c \in Slots :
               (calls'[c].op = "clear" /\ calls'[c].pc = "rm") =>
                 (IF calls'[c].live THEN breakpoints' ELSE calls'[c].arr)[calls'[c].i]
                     \notin GroupMembers]_vars

\* The group is registered and installed, a member was also handed to
\* setBreakpoint and waits in the queue, and clearInstructionBreakpoints is
\* removing the instruction breakpoint at the address of a member.
C15_Witness ==
  /\ temporaryBreakpointArrays = <<1>>
  /\ Members(1) \subseteq remote
  /\ pendingBreakpoints = <<1>>
  /\ \E c \in Slots : /\ calls[c].op = "clear" /\ calls[c].pc = "rm"
                      /\ calls[c].typ = "INSTRUCTION"
                      /\ breakpoints[calls[c].i] = 3
                      /\ heap[3].offset = heap[1].offset

(***************************************************************************)
(* C16.  When connected, setBreakpoint classifies by shape.  A breakpoint  *)
(* with source, line and id is resolved first, then installed and added to *)
(* the active list.  A breakpoint with an exception mask is installed and  *)
(* not added to the active list.  A DATA or INSTRUCTION breakpoint without *)
(* source line is installed and added to the active list.  Any other       *)
(* shape is an incomplete-breakpoint error: the breakpoint ends in the     *)
(* pending queue, not installed and not in the active list.                *)
(***************************************************************************)
HasSourceLine(b) == b.source.def /\ b.line # NoNum /\ b.id # NoNum
HasMask(b) == b.exceptionMask # NoNum
IsDataOrInstruction(b) == b.breakpointType \in {"DATA", "INSTRUCTION"}

\* Call c is a setBreakpoint of object o at stage pc.
SetAt(cs, c, o, pc) == cs[c].op = "set" /\ cs[c].bp = o /\ cs[c].pc = pc

C16_ClassifiedByShape ==
  [][/\ \A o \in Refs :
          (connected /\ SetBreakpoint(o)) =>
             IF HasSourceLine(heap[o])
             THEN program =>
                    /\ \E c \in Slots : SetAt(calls', c, o, "lookup") \/ SetAt(calls', c, o, "dasm")
                    /\ remote' = remote /\ breakpoints' = breakpoints
             ELSE IF HasMask(heap[o]) \/ IsDataOrInstruction(heap[o])
             THEN /\ \E c \in Slots : SetAt(calls', c, o, "install")
                  /\ remote' = remote /\ breakpoints' = breakpoints
             ELSE /\ ret' = "false"
                  /\ pendingBreakpoints' = Append(pendingBreakpoints, o)
                  /\ heap'[o].message = ErrIncomplete
                  /\ calls' = calls
                  /\ remote' = remote /\ breakpoints' = breakpoints
     /\ \A c \in Slots :
          LET o == calls[c].bp
          IN /\ (calls[c].op = "set" /\ calls[c].pc # "install" /\ calls'[c].pc = "install") =>
                  /\ HasSourceLine(heap[o])
                  /\ heap'[o].offset \in {Location.offset, DasmAddress}
             /\ SetInstallDone(c, "ok") =>
                  /\ ret' = "true"
                  /\ remote' = remote \cup {o}
                  /\ breakpoints' =
                       IF HasSourceLine(heap[o]) \/ ~HasMask(heap[o])
                       THEN Append(breakpoints, o) ELSE breakpoints
     /\ \A o \in Refs :
          (~HasSourceLine(heap[o]) /\ ~HasMask(heap[o]) /\ ~IsDataOrInstruction(heap[o])) =>
             o \notin remote' /\ ~InSeq(breakpoints', o)]_vars

\* The exception breakpoint is on the target and not in the active list, the
\* source breakpoint was resolved, installed and is in the active list, and
\* the TEMPORARY breakpoint is queued with the incomplete-breakpoint error.
C16_Witness ==
  /\ connected /\ Quiet
  /\ 4 \in remote /\ ~InSeq(breakpoints, 4)
  /\ breakpoints = <<1>> /\ 1 \in remote /\ heap[1].segmentId = Location.segmentId
  /\ pendingBreakpoints = <<5>> /\ 5 \notin remote
  /\ heap[5].message = ErrIncomplete

(***************************************************************************)
(* C17.  The line cache is insert-once.  Once the cache has an entry for   *)
(* an address, the entry's text and copper flag never change and the entry *)
(* is never removed, whatever the interleaving of disassembleLine calls.   *)
(***************************************************************************)
C17_CacheInsertOnce ==
  [][\A pc \in DmPcs : lineCache[pc] # NoLine => lineCache'[pc] = lineCache[pc]]_vars

(***************************************************************************)
(* C18.  getStackFrame for a copper address outside any segment: when      *)
(* neither list pointer gives a line that is 0 or more (both absent, or pc *)
(* before every valid pointer), the frame has no source and no line.       *)
(***************************************************************************)
C18_NoCandidateNoLine ==
  [][\A c \in DmSlots, memory \in CopMem :
       LET pc == dmCalls[c].pc
           cop1Addr == dmCalls[c].cop1Addr
           cop2Addr == parseIntRadix(memory, 16)
       IN (/\ FrameCop2Done(c, TRUE, memory)
           /\ toRelativeOffset(pc)[1] < 0
           /\ ~Truthy(cop1Addr) \/ (pc - cop1Addr.v + 4) \div 4 < 0
           /\ ~Truthy(cop2Addr) \/ (pc - cop2Addr.v + 4) \div 4 < 0)
          => /\ dmOut'.kind = "frame"
             /\ ~dmOut'.frame.source.def
             /\ dmOut'.frame.line = StackFrame(0, <<>>).line]_vars

(***************************************************************************)
(* C19.  removeTemporaryBreakpointArray removes under the lock.  Every     *)
(* remote removal it sent has settled before the call releases the mutex,  *)
(* also when the removal of one member fails; the group leaves the         *)
(* registry only when all its members were removed, and stays registered   *)
(* when a removal failed.                                                  *)
(***************************************************************************)
C19_RemovalsUnderLock ==
  [][/\ \A c \in Slots :
          (calls'[c].op = "rmTmp" /\ calls'[c].pc \in {"rm", "orphan"}
             /\ calls'[c].left # {}) => mutexHolder' = c
     /\ \A c \in Slots, k \in 1..2 :
          RmTmpRemoveDone(c, k, FALSE) =>
             temporaryBreakpointArrays' = temporaryBreakpointArrays
     /\ \A g \in 1..Len(groups) :
          (InSeq(temporaryBreakpointArrays, g) /\ ~InSeq(temporaryBreakpointArrays', g)) =>
             \E c \in Slots : calls[c].grp = g /\ calls[c].left = {} /\ RmTmpFinish(c)]_vars

(***************************************************************************)
(* C20.  Pending entries leave the queue only through                      *)
(* sendAllPendingBreakpoints.  No other operation removes or reorders an   *)
(* entry of the queue; setBreakpoint and addPendingBreakpoint only append, *)
(* an entry already queued included.                                       *)
(***************************************************************************)
C20_PendingLeavesOnlyByFlush ==
  [][/\ (\E c \in Slots : FlushSwap(c)) \/ IsPrefix(pendingBreakpoints, pendingBreakpoints')
     /\ \A o \in Refs :
          /\ AddPendingBreakpoint(o) => pendingBreakpoints' = Append(pendingBreakpoints, o)
          /\ SetBreakpoint(o) =>
               pendingBreakpoints' \in {pendingBreakpoints, Append(pendingBreakpoints, o)}]_vars

\* The source breakpoint is queued twice, and removeExceptionBreakpoint is
\* removing on the target.
C20_Witness ==
  /\ pendingBreakpoints = <<1, 1>>
  /\ \E c \in Slots : calls[c].op = "rmExc" /\ calls[c].pc = "rm"

(***************************************************************************)
(* C21.  addLocationToPending only resolves locations in place.  For every *)
(* pending entry with a source that is no disassembly view and a line, a   *)
(* lookup that succeeds sets segmentId and offset; nothing else changes:   *)
(* the queue, the active list, the verified flags and the target stay as   *)
(* they are, and a failed lookup or a missing program leaves the entry     *)
(* as it is and does not raise.                                            *)
(***************************************************************************)
\* The entry is one addLocationToPending looks up.
Resolvable(b) ==
  /\ b.source.def /\ b.line # NoNum /\ b.line # 0
  /\ ~isDisassembledFile(IF b.source.path = Undef THEN "" ELSE b.source.path)

\* No entry of arr from index i on is one to look up.
NoneResolvable(h, arr, i) == \A j \in i..Len(arr) : ~Resolvable(h[arr[j]])

\* j is the first index from i on of an entry to look up.
FirstResolvable(h, arr, i, j) ==
  /\ j \in i..Len(arr) /\ Resolvable(h[arr[j]])
  /\ \A k \in i..(j - 1) : ~Resolvable(h[arr[k]])

C21_ResolvesInPlace ==
  [][/\ AddLocationToPending =>
          /\ heap' = heap /\ pendingBreakpoints' = pendingBreakpoints
          /\ breakpoints' = breakpoints /\ remote' = remote
          /\ calls' = calls => ret' = "void"
          /\ ~program => calls' = calls
          /\ calls' = calls => (~program \/ NoneResolvable(heap, pendingBreakpoints, 1))
          /\ \A c \in Slots :
               (calls'[c] # calls[c]) =>
                 FirstResolvable(heap, pendingBreakpoints, 1, calls'[c].i)
     /\ \A c \in Slots, outcome \in {"found", "none", "throw"} :
          AddLocLookupDone(c, outcome) =>
            LET arr == PendingArray(c)
                o == arr[calls[c].i]
            IN /\ heap' = IF outcome = "found"
                          THEN [heap EXCEPT ![o].segmentId = Location.segmentId,
                                            ![o].offset = Location.offset]
                          ELSE heap
               /\ pendingBreakpoints' = pendingBreakpoints
               /\ breakpoints' = breakpoints /\ remote' = remote
               /\ IF outcome = "found"
                  THEN calls'[c].op = "addLoc" /\ calls'[c].i = calls[c].i
                  ELSE IF calls'[c].op = "addLoc"
                  THEN FirstResolvable(heap', arr, calls[c].i + 1, calls'[c].i)
                  ELSE /\ ret' = "void"
                       /\ NoneResolvable(heap', arr, calls[c].i + 1)
     /\ \A c \in Slots :
          AddLocNext(c) =>
            LET arr == PendingArray(c)
            IN /\ heap' = heap /\ pendingBreakpoints' = pendingBreakpoints
               /\ breakpoints' = breakpoints /\ remote' = remote
               /\ IF calls'[c].op = "addLoc"
                  THEN FirstResolvable(heap, arr, calls[c].i + 1, calls'[c].i)
                  ELSE /\ ret' = "void"
                       /\ NoneResolvable(heap, arr, calls[c].i + 1)]_vars

(***************************************************************************)
(* C22.  clearBreakpoints(source) takes an active SOURCE breakpoint as one *)
(* of the source exactly when the two paths are equal, or the breakpoint   *)
(* has no path, the two names are equal and the name is that of a          *)
(* disassembly view.  A breakpoint with a path that differs from the       *)
(* source's path is never removed, equal names or not.                     *)
(***************************************************************************)
BelongsTo(b, source) ==
  /\ b.source.def
  /\ \/ b.source.path # Undef /\ b.source.path = source.path
     \/ /\ b.source.path = Undef
        /\ b.source.name # Undef /\ b.source.name = source.name
        /\ isDisassembledFile(b.source.name)

C22_SameSourceByPath ==
  [][\A c \in Slots :
       LET source == calls[c].src
           arr == ClearArray(c)
           from == IF calls[c].pc = "locked" THEN 1 ELSE calls[c].i + 1
           to == IF calls'[c].op = "clear" THEN calls'[c].i ELSE Len(arr) + 1
       IN (/\ calls[c].op = "clear" /\ calls[c].typ = "SOURCE" /\ source.def
           /\ calls[c].pc \in {"locked", "rm"}
           /\ calls'[c] # calls[c])
          => /\ \A k \in from..(to - 1) :
                  heap[arr[k]].breakpointType = "SOURCE" => ~BelongsTo(heap[arr[k]], source)
             /\ to <= Len(arr) =>
                  /\ heap[arr[to]].breakpointType = "SOURCE"
                  /\ BelongsTo(heap[arr[to]], source)]_vars

(***************************************************************************)
(* C23.  setBreakpoint never waits for the mutex.  A setBreakpoint call    *)
(* made while a bulk operation holds the lock returns once its own lookup  *)
(* and remote install have settled, whether the lock is ever released or   *)
(* not; so a flush that holds the lock finishes and releases it once the   *)
(* setBreakpoint calls it made have returned.                              *)
(***************************************************************************)
C23_SetBreakpointNeverWaits ==
  /\ \A c \in Slots : (calls[c].op = "set") ~> (calls[c].op # "set")
  /\ \A c \in Slots :
       (calls[c].op = "flush" /\ calls[c].pc = "wait")
          ~> (calls[c].op # "flush" /\ mutexHolder # c)

\* clearInstructionBreakpoints holds the lock and waits for a removal; a
\* setBreakpoint made meanwhile has installed its breakpoint and returned.
C23_Witness ==
  /\ \E c \in Slots : calls[c].op = "clear" /\ calls[c].pc = "rm" /\ mutexHolder = c
  /\ ret = "true"
  /\ 1 \in remote /\ InSeq(breakpoints, 1)

(***************************************************************************)
(* C24.  The copper flag of the line disassembleLine(pc, thread) returns,  *)
(* and with it the branch getStackFrame takes, is what the session says of *)
(* the thread passed to the call, also when the address was disassembled   *)
(* for a thread of the other kind before.                                  *)
(***************************************************************************)
C24_FlagFollowsThread ==
  \A c \in DmSlots :
    (dmCalls[c].op = "frame" /\ dmCalls[c].stage # "label") =>
      dmCalls[c].isCopper = (dmCalls[c].thread = "copper")

(***************************************************************************)
(* C25.  No install is lost when setBreakpoint runs while a clear by kind  *)
(* is running.  Once the calls have finished, a breakpoint that is         *)
(* installed on the target is in the active list, and a breakpoint the     *)
(* clear removed from the target is not; an entry setBreakpoint appended   *)
(* while the clear awaited a removal stays in the list when the clear      *)
(* replaces it, unless the clear removed it too.                           *)
(***************************************************************************)
C25_NoInstallLost ==
  /\ Quiet => \A o \in Refs : (o \in remote <=> InSeq(breakpoints, o))
  /\ \A c \in Slots :
       (calls[c].op = "clear" /\ calls[c].pc = "rm") =>
          \A k \in 1..Len(breakpoints) :
             \/ k >= calls[c].i
             \/ breakpoints[k] \notin remote
             \/ InSeq(calls[c].rem, breakpoints[k])

\* clearInstructionBreakpoints holds the lock and awaits the removal of the
\* first entry of the active list, while the remote install of the data
\* breakpoint by setBreakpoint is in flight.
C25_Witness ==
  /\ breakpoints = <<1>>
  /\ \E c \in Slots : /\ calls[c].op = "clear" /\ calls[c].pc = "rm"
                      /\ calls[c].typ = "INSTRUCTION" /\ calls[c].i = 1
  /\ \E c \in Slots : SetAt(calls, c, 3, "install")

(***************************************************************************)
(* C26.  Flushes that run concurrently never capture the same pending      *)
(* entry.  Each entry is installed on the target at most once; a flush     *)
(* captures an entry only when no other flush is working on it and it is   *)
(* not installed, so an entry reaches a second flush only after the first  *)
(* flush failed to install it and queued it again; and every entry is in   *)
(* the queue, in the hands of a flush, or installed and active.            *)
(***************************************************************************)
\* A setBreakpoint call for o is in progress.
InFlight(cs, o) == \E c \in Slots : cs[c].op = "set" /\ cs[c].bp = o

\* Entry o is queued, being set, or installed and active.
Kept(cs, pend, act, rem, o) ==
  \/ InSeq(pend, o)
  \/ InFlight(cs, o)
  \/ o \in rem /\ InSeq(act, o)

C26_NoDoubleCapture ==
  [][/\ \A c \in Slots : SetInstallDone(c, "ok") => calls[c].bp \notin remote
     /\ \A c \in Slots :
          FlushSwap(c) =>
            /\ \A d \in Slots \ {c} :
                 ~(calls[d].op = "flush" /\ calls[d].pc \in {"locked", "wait"})
            /\ \A k \in 1..Len(pendingBreakpoints) :
                 LET o == pendingBreakpoints[k]
                 IN /\ ~InFlight(calls, o)
                    /\ o \notin remote /\ ~InSeq(breakpoints, o)
                    /\ InFlight(calls', o) \/ InSeq(pendingBreakpoints', o)
     /\ \A o \in Refs :
          /\ Kept(calls, pendingBreakpoints, breakpoints, remote, o)
          /\ Kept(calls', pendingBreakpoints', breakpoints', remote', o)
          /\ Cardinality({c \in Slots : calls'[c].op = "set" /\ calls'[c].bp = o}) <= 1]_vars

\* The first flush holds the lock and awaits the install of the instruction
\* breakpoint; it failed to resolve the source breakpoint and queued it
\* again, and a second flush waits for the lock to capture it.
C26_Witness ==
  /\ pendingBreakpoints = <<1>> /\ heap[1].message = ErrNotResolved
  /\ \E c \in Slots : /\ SetAt(calls, c, 2, "install") /\ calls[c].parent # 0
                      /\ mutexHolder = calls[c].parent
  /\ \E d \in Slots : calls[d].op = "flush" /\ calls[d].pc = "acq"

====
